---- MODULE Spec2Model ----
(***************************************************************************)
(* A model of the rust-gymnasium environment toolkit: the Env contract     *)
(* (reset / step), the six physics environments, the per-environment RNG   *)
(* stream and the synchronous vector layer SyncVectorEnv.                  *)
(*                                                                         *)
(* f32 quantities are modelled in fixed point: an integer v stands for the *)
(* real v / Scale (mountain-car quantities use v / McScale because their   *)
(* constants are of the order 1e-3).  u64 seeds keep their width: a seed   *)
(* is a sequence of four 16-bit limbs, most significant first.             *)
(***************************************************************************)
EXTENDS Integers, Sequences, FiniteSets, TLC

VARIABLES env, out, hist, envs, vout, vhist, panicked, obj, call, log

vars == <<env, out, hist, envs, vout, vhist, panicked, obj, call, log>>

----------------------------------------------------------------------------
(* Bounds of the model *)

\* step calls explored per episode
MaxSteps == 3
\* resets explored on one RNG stream
MaxResets == 2
\* largest batch size of a SyncVectorEnv
MaxN == 2
\* step calls explored from a state at the edge of an environment's box
EdgeSteps == 2
\* drawing calls on one canvas
CanvasCalls == 2
\* reset_all and step_all calls on a batch whose members end their episodes
BatchCalls == 3
\* calls of each thread that uses the registry
RegCalls == 2
\* step calls on a wrapper between two resets
WrapSteps == 3
\* step calls explored between a reset and a render
RenderSteps == 1
\* sub-seeds drawn from one SeedSequence
MaxSubseeds == 4
\* values drawn from the stream given to the sample calls of one space
MaxDraws == 4
\* insert calls explored on one Info
MaxInserts == 4
\* member steps explored per batch since the last reset_all: a batch of N
\* members is stepped MaxMemberSteps \div N times
MaxMemberSteps == 4

----------------------------------------------------------------------------
(* Option<T> *)

None == <<>>
Some(x) == <<x>>
IsSome(o) == o # <<>>
Unwrap(o) == o[1]

----------------------------------------------------------------------------
(* u64 as four 16-bit limbs *)

Limb == 2^16

U64(n) == <<0, 0, n \div Limb, n % Limb>>

U64Max == <<Limb - 1, Limb - 1, Limb - 1, Limb - 1>>

\* s + i on u64 (i a small usize): the wrapped sum and whether the true sum
\* exceeds 2^64 - 1
AddU64(s, i) ==
    LET t4 == s[4] + i
        t3 == s[3] + t4 \div Limb
        t2 == s[2] + t3 \div Limb
        t1 == s[1] + t2 \div Limb
    IN  [value |-> <<t1 % Limb, t2 % Limb, t3 % Limb, t4 % Limb>>,
         overflow |-> t1 \div Limb > 0]

----------------------------------------------------------------------------
(* f32 in fixed point *)

Scale == 10 * 10 * 10
McScale == 10 * Scale

Abs(a) == IF a < 0 THEN -a ELSE a

\* division rounding toward zero
Quot(a, b) ==
    IF (a < 0) = (b < 0) THEN Abs(a) \div Abs(b) ELSE -(Abs(a) \div Abs(b))

\* the f32 operator %: remainder with the sign of the dividend
Rem(a, b) == a - b * Quot(a, b)

Mul(a, b) == Quot(a * b, Scale)
Div(a, b) == Quot(a * Scale, b)

\* std::f32::consts::PI and FRAC_PI_2
Pi == 3142
HalfPi == 1571

\* f32::clamp, and the pair of statements
\*   if v > hi { v = hi; }  if v < lo { v = lo; }
Clamp(v, lo, hi) == IF v > hi THEN hi ELSE IF v < lo THEN lo ELSE v

\* sin on [-pi/2, pi/2] by its Taylor polynomial of degree 7, the powers of
\* x computed once each
SinPoly7(x, x2, x3, x5) ==
    x - Quot(x3, 6) + Quot(x5, 120) - Quot(Mul(x5, x2), 5040)

SinPoly5(x, x2, x3) == SinPoly7(x, x2, x3, Mul(x3, x2))

SinPoly3(x, x2) == SinPoly5(x, x2, Mul(x2, x))

SinPoly(x) == SinPoly3(x, Mul(x, x))

\* an angle of (-2 pi, 2 pi) brought into [-pi, pi]
WrapPi(r) == IF r > Pi THEN r - 2 * Pi ELSE IF r < -Pi THEN r + 2 * Pi ELSE r

\* an angle of [-pi, pi] reflected into [-pi/2, pi/2]
FoldHalfPi(a) == IF a > HalfPi THEN Pi - a ELSE IF a < -HalfPi THEN -Pi - a ELSE a

Sin(x) == Clamp(SinPoly(FoldHalfPi(WrapPi(Rem(x, 2 * Pi)))), -Scale, Scale)

Cos(x) == Sin(x + HalfPi)

----------------------------------------------------------------------------
(* The RNG stream: ChaCha8 seeded from a u64.  A stream is the pair of its *)
(* seed and the number of 32-bit words drawn so far; the word at a         *)
(* position is a fixed function of the seed.                               *)

RawMod == 2 * 2 * 2 * 2

rng_from_seed(seed) == [seed |-> seed, pos |-> 0]

Raw(seed, pos) ==
    LET h == (seed[4] % 251) * 7 + (seed[3] % 241) * 11
             + (seed[2] % 239) * 13 + (seed[1] % 233) * 17
    IN  (((h + 3) * (2 * pos + 5) + pos * pos) % 1021) % RawMod

\* Uniform::new_inclusive(lo, hi).sample(rng) on the k-th word after the
\* stream's position
SampleUniform(lo, hi, rng, k) ==
    lo + Quot((hi - lo) * Raw(rng.seed, rng.pos + k), RawMod - 1)

Advance(rng, n) == [rng EXCEPT !.pos = @ + n]

\* a faulty variant of Reseed: a seed given to reset is ignored
ReseedNever(rng, seed) == rng

\* a faulty variant of Reseed: reset(None) rewinds the stream to its beginning
ReseedRewind(rng, seed) ==
    IF IsSome(seed) THEN rng_from_seed(Unwrap(seed)) ELSE rng_from_seed(rng.seed)

\* the first statement of every reset:
\*   if let Some(s) = seed { self.rng = rng_from_seed(s); }
Reseed(rng, seed) == IF IsSome(seed) THEN rng_from_seed(Unwrap(seed)) ELSE rng

----------------------------------------------------------------------------
(* core.rs: the transition result.  Info::new() is the empty map.          *)

NewInfo == <<>>

NewStep(observation, reward, terminated, truncated, info) ==
    [observation |-> observation, reward |-> reward,
     terminated |-> terminated, truncated |-> truncated, info |-> info]

\* a faulty variant of TruncatedAt: the budget is exceeded only one step later
TruncatedAtStrict(steps, max_episode_steps) == steps > max_episode_steps

\* the truncation predicate every environment evaluates after steps += 1
TruncatedAt(steps, max_episode_steps) == steps >= max_episode_steps

----------------------------------------------------------------------------
(* CartPoleEnv *)

CartPoleP ==
    [gravity |-> 9800, masscart |-> 1000, masspole |-> 100,
     total_mass |-> 1000 + 100, length |-> 500,
     polemass_length |-> Mul(100, 500), force_mag |-> 10000, tau |-> 20,
     theta_threshold_radians |-> 209, x_threshold |-> 2400]

CartPoleNew(seed) ==
    [kind |-> "CartPole",
     s |-> [x |-> 0, x_dot |-> 0, theta |-> 0, theta_dot |-> 0],
     steps |-> 0, max_episode_steps |-> 500, rng |-> rng_from_seed(seed)]

CartPoleObs(e) == <<e.s.x, e.s.x_dot, e.s.theta, e.s.theta_dot>>

\* a faulty variant of CartPoleTerminated: the right edge of the track is not checked
CartPoleTerminatedNoRightEdge(e) ==
    \/ e.s.x < -CartPoleP.x_threshold
    \/ e.s.theta < -CartPoleP.theta_threshold_radians
    \/ e.s.theta > CartPoleP.theta_threshold_radians

CartPoleTerminated(e) ==
    \/ e.s.x < -CartPoleP.x_threshold
    \/ e.s.x > CartPoleP.x_threshold
    \/ e.s.theta < -CartPoleP.theta_threshold_radians
    \/ e.s.theta > CartPoleP.theta_threshold_radians

\* the state after reset, given the stream the samples are drawn from
CartPoleSample(e, rng) ==
    [e EXCEPT !.s = [x         |-> SampleUniform(-50, 50, rng, 0),
                     x_dot     |-> SampleUniform(-50, 50, rng, 1),
                     theta     |-> SampleUniform(-50, 50, rng, 2),
                     theta_dot |-> SampleUniform(-50, 50, rng, 3)],
              !.rng = Advance(rng, 4),
              !.steps = 0]

CartPoleReset(e, seed) ==
    LET e1 == CartPoleSample(e, Reseed(e.rng, seed))
    IN  [env |-> e1, ret |-> <<CartPoleObs(e1), NewInfo>>]

CartPoleReward == 1000

\* step is modelled statement by statement, last statement first: each
\* operator takes the values computed so far and makes the next one.

\* steps += 1 is done: terminated, truncated, reward and the result
CartPoleReturn(e1) ==
    [env |-> e1,
     ret |-> NewStep(CartPoleObs(e1), CartPoleReward, CartPoleTerminated(e1),
                     TruncatedAt(e1.steps, e1.max_episode_steps), NewInfo)]

\* the Euler integration and steps += 1
CartPoleEuler(e, x_acc, theta_acc) ==
    CartPoleReturn(
        [e EXCEPT !.s = [x         |-> e.s.x + Mul(CartPoleP.tau, e.s.x_dot),
                         x_dot     |-> e.s.x_dot + Mul(CartPoleP.tau, x_acc),
                         theta     |-> e.s.theta + Mul(CartPoleP.tau, e.s.theta_dot),
                         theta_dot |-> e.s.theta_dot + Mul(CartPoleP.tau, theta_acc)],
                  !.steps = @ + 1])

\* let x_acc
CartPoleXAcc(e, cos_theta, temp, theta_acc) ==
    CartPoleEuler(e,
        temp - Div(Mul(Mul(CartPoleP.polemass_length, theta_acc), cos_theta),
                   CartPoleP.total_mass),
        theta_acc)

\* let theta_acc
CartPoleThetaAcc(e, cos_theta, sin_theta, temp) ==
    CartPoleXAcc(e, cos_theta, temp,
        Div(Mul(CartPoleP.gravity, sin_theta) - Mul(cos_theta, temp),
            Mul(CartPoleP.length,
                Div(4000, 3000)
                - Div(Mul(CartPoleP.masspole, Mul(cos_theta, cos_theta)),
                      CartPoleP.total_mass))))

\* let temp
CartPoleTemp(e, force, cos_theta, sin_theta) ==
    CartPoleThetaAcc(e, cos_theta, sin_theta,
        Div(force + Mul(Mul(CartPoleP.polemass_length,
                            Mul(e.s.theta_dot, e.s.theta_dot)), sin_theta),
            CartPoleP.total_mass))

\* a faulty variant of CartPoleStep: an index above 1 pushes right
CartPoleStepCapped(e, action) ==
    CartPoleTemp(e,
        IF action >= 1 THEN CartPoleP.force_mag ELSE -CartPoleP.force_mag,
        Cos(e.s.theta), Sin(e.s.theta))

\* let force, cos_theta, sin_theta
CartPoleStep(e, action) ==
    CartPoleTemp(e,
        IF action = 1 THEN CartPoleP.force_mag ELSE -CartPoleP.force_mag,
        Cos(e.s.theta), Sin(e.s.theta))

----------------------------------------------------------------------------
(* PendulumEnv *)

PendulumP ==
    [g |-> 10000, m |-> 1000, l |-> 1000, max_speed |-> 8000,
     max_torque |-> 2000, dt |-> 50]

PendulumNew(seed) ==
    [kind |-> "Pendulum",
     s |-> [theta |-> 0, theta_dot |-> 0],
     steps |-> 0, max_episode_steps |-> 200, rng |-> rng_from_seed(seed)]

PendulumObs(e) == <<Cos(e.s.theta), Sin(e.s.theta), e.s.theta_dot>>

\* a faulty variant of angle_normalize: a negative remainder is not lifted
angle_normalizeOnce(x) == Rem(x + Pi, 2 * Pi) - Pi

\* ((x + pi) % (2 pi) + 2 pi) % (2 pi) - pi
angle_normalize(x) == Rem(Rem(x + Pi, 2 * Pi) + 2 * Pi, 2 * Pi) - Pi

PendulumSample(e, rng) ==
    [e EXCEPT !.s = [theta     |-> SampleUniform(-Pi, Pi, rng, 0),
                     theta_dot |-> SampleUniform(-1000, 1000, rng, 1)],
              !.rng = Advance(rng, 2),
              !.steps = 0]

PendulumReset(e, seed) ==
    LET e1 == PendulumSample(e, Reseed(e.rng, seed))
    IN  [env |-> e1, ret |-> <<PendulumObs(e1), NewInfo>>]

\* a faulty variant of PendulumTerminated: the episode ends when the pendulum hangs
PendulumTerminatedHanging(e) == Abs(e.s.theta) > HalfPi

PendulumTerminated(e) == FALSE

\* steps += 1 is done: the cost of the state reached and the result
PendulumReturn(e1, torque, theta_norm) ==
    [env |-> e1,
     ret |-> NewStep(PendulumObs(e1),
                     -(Mul(theta_norm, theta_norm)
                       + Mul(Mul(100, e1.s.theta_dot), e1.s.theta_dot)
                       + Mul(Mul(1, torque), torque)),
                     PendulumTerminated(e1),
                     TruncatedAt(e1.steps, e1.max_episode_steps), NewInfo)]

\* self.theta = angle_normalize(self.theta); steps += 1; let theta_norm
PendulumNormalize(e, torque, theta, theta_dot) ==
    PendulumReturn([e EXCEPT !.s = [theta |-> theta, theta_dot |-> theta_dot],
                             !.steps = @ + 1],
                   torque, angle_normalize(theta))

\* self.theta += self.theta_dot * dt, with the speed already clamped
PendulumTurn(e, torque, theta_dot) ==
    PendulumNormalize(e, torque,
        angle_normalize(e.s.theta + Mul(theta_dot, PendulumP.dt)), theta_dot)

\* self.theta_dot += theta_ddot * dt and the two clamping statements
PendulumAccelerate(e, torque, theta_ddot) ==
    PendulumTurn(e, torque,
        Clamp(e.s.theta_dot + Mul(theta_ddot, PendulumP.dt),
              -PendulumP.max_speed, PendulumP.max_speed))

\* let theta_ddot
PendulumTorque(e, torque) ==
    PendulumAccelerate(e, torque,
        Mul(Div(Mul(3000, PendulumP.g), Mul(2000, PendulumP.l)), Sin(e.s.theta))
        + Mul(Div(3000, Mul(PendulumP.m, Mul(PendulumP.l, PendulumP.l))), torque))

\* let torque
PendulumStep(e, action) ==
    PendulumTorque(e,
        CASE action = 0 -> -PendulumP.max_torque
          [] action = 1 -> 0
          [] OTHER      -> PendulumP.max_torque)

----------------------------------------------------------------------------
(* MountainCarEnv and MountainCarContinuousEnv: positions and velocities   *)
(* in units of 1 / McScale, rewards and the continuous action in units of  *)
(* 1 / Scale.                                                              *)

MountainCarP ==
    [min_position |-> -12000, max_position |-> 6000, max_speed |-> 700,
     goal_position |-> 5000, force |-> 10, gravity |-> 25]

MountainCarContinuousP ==
    [min_position |-> -12000, max_position |-> 6000, max_speed |-> 700,
     goal_position |-> 4500, power |-> 15, gravity |-> 25]

MountainCarNew(seed) ==
    [kind |-> "MountainCar",
     s |-> [position |-> 0, velocity |-> 0],
     steps |-> 0, max_episode_steps |-> 200, rng |-> rng_from_seed(seed)]

MountainCarContinuousNew(seed) ==
    [kind |-> "MountainCarContinuous",
     s |-> [position |-> 0, velocity |-> 0],
     steps |-> 0, max_episode_steps |-> 999, rng |-> rng_from_seed(seed)]

MountainCarObs(e) == <<e.s.position, e.s.velocity>>

MountainCarSample(e, rng) ==
    [e EXCEPT !.s = [position |-> SampleUniform(-6000, -4000, rng, 0), velocity |-> 0],
              !.rng = Advance(rng, 1),
              !.steps = 0]

MountainCarReset(e, seed) ==
    LET e1 == MountainCarSample(e, Reseed(e.rng, seed))
    IN  [env |-> e1, ret |-> <<MountainCarObs(e1), NewInfo>>]

\* The dynamics both variants share, statement by statement, last statement
\* first; push is the acceleration of the action.

\* a faulty variant of MountainCarWall: the car keeps its speed at the wall
MountainCarWallKeepsSpeed(P, position, velocity) ==
    [position |-> position, velocity |-> velocity]

\* if self.position <= self.min_position && self.velocity < 0.0
\*     { self.velocity = 0.0; }
MountainCarWall(P, position, velocity) ==
    [position |-> position,
     velocity |-> IF position <= P.min_position /\ velocity < 0 THEN 0 ELSE velocity]

\* self.position += self.velocity and the two clamping statements
MountainCarRoll(P, s, velocity) ==
    MountainCarWall(P, Clamp(s.position + velocity, P.min_position, P.max_position),
                    velocity)

\* self.velocity += push - gravity * cos(3 * position) and the two clamping
\* statements
MountainCarMove(P, s, push) ==
    MountainCarRoll(P, s,
        Clamp(s.velocity + push
              - Mul(P.gravity, Cos(Quot(3 * s.position, McScale \div Scale))),
              -P.max_speed, P.max_speed))

\* a faulty variant of MountainCarTerminated: the episode ends at the right wall
MountainCarTerminatedAtWall(e) == e.s.position >= MountainCarP.max_position

MountainCarTerminated(e) == e.s.position >= MountainCarP.goal_position

\* steps += 1 is done: terminated, truncated, reward and the result
MountainCarReturn(e1) ==
    [env |-> e1,
     ret |-> NewStep(MountainCarObs(e1),
                     IF MountainCarTerminated(e1) THEN 0 ELSE -1000,
                     MountainCarTerminated(e1),
                     TruncatedAt(e1.steps, e1.max_episode_steps), NewInfo)]

MountainCarStep(e, action) ==
    MountainCarReturn(
        [e EXCEPT !.s = MountainCarMove(MountainCarP, e.s,
                            (CASE action = 0 -> -1
                               [] action = 1 -> 0
                               [] OTHER      -> 1) * MountainCarP.force),
                  !.steps = @ + 1])

MountainCarContinuousTerminated(e) ==
    e.s.position >= MountainCarContinuousP.goal_position

\* steps += 1 is done; a is the clamped action
MountainCarContinuousReturn(e1, a) ==
    [env |-> e1,
     ret |-> NewStep(MountainCarObs(e1),
                     -Mul(Mul(100, a), a)
                     + (IF MountainCarContinuousTerminated(e1) THEN 100000 ELSE 0),
                     MountainCarContinuousTerminated(e1),
                     TruncatedAt(e1.steps, e1.max_episode_steps), NewInfo)]

\* the step for the clamped action a
MountainCarContinuousPush(e, a) ==
    MountainCarContinuousReturn(
        [e EXCEPT !.s = MountainCarMove(MountainCarContinuousP, e.s,
                                        Mul(a, MountainCarContinuousP.power)),
                  !.steps = @ + 1],
        a)

MountainCarContinuousStep(e, action) ==
    MountainCarContinuousPush(e, Clamp(action, -1000, 1000))

----------------------------------------------------------------------------
(* AcrobotEnv *)

AcrobotP ==
    [m1 |-> 1000, m2 |-> 1000, l1 |-> 1000, l2 |-> 1000, lc1 |-> 500,
     lc2 |-> 500, I1 |-> 1000, I2 |-> 1000, g |-> 9800, dt |-> 200,
     max_vel_1 |-> Mul(4000, Pi), max_vel_2 |-> Mul(9000, Pi)]

AcrobotNew(seed) ==
    [kind |-> "Acrobot",
     s |-> [th1 |-> 0, th2 |-> 0, dth1 |-> 0, dth2 |-> 0],
     steps |-> 0, max_episode_steps |-> 500, rng |-> rng_from_seed(seed)]

AcrobotObs(e) == <<e.s.th1, e.s.th2, e.s.dth1, e.s.dth2>>

\* -cos(th1) - cos(th1 + th2) >= 1.0
terminal_height_reached(e) == -Cos(e.s.th1) - Cos(e.s.th1 + e.s.th2) >= Scale

AcrobotSample(e, rng) ==
    [e EXCEPT !.s = [th1  |-> SampleUniform(-Pi, Pi, rng, 0),
                     th2  |-> SampleUniform(-Pi, Pi, rng, 1),
                     dth1 |-> SampleUniform(-100, 100, rng, 2),
                     dth2 |-> SampleUniform(-100, 100, rng, 3)],
              !.rng = Advance(rng, 4),
              !.steps = 0]

AcrobotReset(e, seed) ==
    LET e1 == AcrobotSample(e, Reseed(e.rng, seed))
    IN  [env |-> e1, ret |-> <<AcrobotObs(e1), NewInfo>>]

\* dynamics, statement by statement, last statement first

\* let ddth1; the accelerations <<ddth1, ddth2>>
dynamics_ddth1(d1, d2, phi1, ddth2) == <<-Div(Mul(d2, ddth2) + phi1, d1), ddth2>>

\* let ddth2
dynamics_ddth2(th2, dth1, torque, d1, d2, phi1, phi2) ==
    dynamics_ddth1(d1, d2, phi1,
        Div(torque + Mul(Div(d2, d1), phi1)
            - Mul(Mul(Mul(Mul(Mul(AcrobotP.m2, AcrobotP.l1), AcrobotP.lc2), dth1), dth1),
                  Sin(th2))
            - phi2,
            Mul(Mul(AcrobotP.m2, AcrobotP.lc2), AcrobotP.lc2) + AcrobotP.I2
            - Div(Mul(d2, d2), d1)))

\* let phi1
dynamics_phi1(th1, th2, dth1, dth2, torque, d1, d2, phi2) ==
    dynamics_ddth2(th2, dth1, torque, d1, d2,
        -Mul(Mul(Mul(Mul(Mul(AcrobotP.m2, AcrobotP.l1), AcrobotP.lc2), dth2), dth2),
             Sin(th2))
        - Mul(Mul(Mul(Mul(Mul(Mul(2000, AcrobotP.m2), AcrobotP.l1), AcrobotP.lc2),
                      dth2), dth1),
              Sin(th2))
        + Mul(Mul(Mul(AcrobotP.m1, AcrobotP.lc1) + Mul(AcrobotP.m2, AcrobotP.l1),
                  AcrobotP.g),
              Cos(th1 - HalfPi))
        + phi2,
        phi2)

\* let d1, d2, phi2
dynamics(th1, th2, dth1, dth2, torque) ==
    dynamics_phi1(th1, th2, dth1, dth2, torque,
        Mul(Mul(AcrobotP.m1, AcrobotP.lc1), AcrobotP.lc1)
        + Mul(AcrobotP.m2, Mul(AcrobotP.l1, AcrobotP.l1) + Mul(AcrobotP.lc2, AcrobotP.lc2)
                           + Mul(Mul(Mul(2000, AcrobotP.l1), AcrobotP.lc2), Cos(th2)))
        + AcrobotP.I1 + AcrobotP.I2,
        Mul(AcrobotP.m2, Mul(AcrobotP.lc2, AcrobotP.lc2)
                         + Mul(Mul(AcrobotP.l1, AcrobotP.lc2), Cos(th2)))
        + AcrobotP.I2,
        Mul(Mul(Mul(AcrobotP.m2, AcrobotP.lc2), AcrobotP.g), Cos(th1 + th2 - HalfPi)))

\* the wrap of an angle after integration
AcrobotWrap(x) == Rem(Rem(x + Pi, 2 * Pi) + 2 * Pi, 2 * Pi) - Pi

\* One stage of the RK4 integration is the slope <<dth1_n, dth2_n, a1_n,
\* a2_n>> at the state the stage evaluates.
AcrobotSlope(s, torque) ==
    <<s.dth1, s.dth2>> \o dynamics(s.th1, s.th2, s.dth1, s.dth2, torque)

\* the state a stage evaluates: s advanced by h along the slope k
AcrobotAdvance(s, h, k) ==
    [th1  |-> s.th1 + Mul(h, k[1]),
     th2  |-> s.th2 + Mul(h, k[2]),
     dth1 |-> s.dth1 + Mul(h, k[3]),
     dth2 |-> s.dth2 + Mul(h, k[4])]

\* steps += 1 is done: terminated, truncated, reward and the result
AcrobotReturn(e1) ==
    [env |-> e1,
     ret |-> NewStep(AcrobotObs(e1),
                     IF terminal_height_reached(e1) THEN 0 ELSE -1000,
                     terminal_height_reached(e1),
                     TruncatedAt(e1.steps, e1.max_episode_steps), NewInfo)]

\* the weighted sum of the four slopes, the wrap of the angles, the clamp of
\* the velocities and steps += 1
AcrobotIntegrate(e, k1, k2, k3, k4) ==
    AcrobotReturn(
        [e EXCEPT
            !.s = [th1  |-> AcrobotWrap(e.s.th1
                              + Quot(Mul(AcrobotP.dt, k1[1] + 2 * k2[1] + 2 * k3[1] + k4[1]), 6)),
                   th2  |-> AcrobotWrap(e.s.th2
                              + Quot(Mul(AcrobotP.dt, k1[2] + 2 * k2[2] + 2 * k3[2] + k4[2]), 6)),
                   dth1 |-> Clamp(e.s.dth1
                              + Quot(Mul(AcrobotP.dt, k1[3] + 2 * k2[3] + 2 * k3[3] + k4[3]), 6),
                              -AcrobotP.max_vel_1, AcrobotP.max_vel_1),
                   dth2 |-> Clamp(e.s.dth2
                              + Quot(Mul(AcrobotP.dt, k1[4] + 2 * k2[4] + 2 * k3[4] + k4[4]), 6),
                              -AcrobotP.max_vel_2, AcrobotP.max_vel_2)],
            !.steps = @ + 1])

\* the fourth stage, a full step along the third slope
AcrobotStage4(e, torque, k1, k2, k3) ==
    AcrobotIntegrate(e, k1, k2, k3,
        AcrobotSlope(AcrobotAdvance(e.s, AcrobotP.dt, k3), torque))

\* the third stage, half a step along the second slope
AcrobotStage3(e, torque, k1, k2) ==
    AcrobotStage4(e, torque, k1, k2,
        AcrobotSlope(AcrobotAdvance(e.s, Mul(500, AcrobotP.dt), k2), torque))

\* the second stage, half a step along the first slope
AcrobotStage2(e, torque, k1) ==
    AcrobotStage3(e, torque, k1,
        AcrobotSlope(AcrobotAdvance(e.s, Mul(500, AcrobotP.dt), k1), torque))

\* the first stage, at the state itself
AcrobotStage1(e, torque) == AcrobotStage2(e, torque, AcrobotSlope(e.s, torque))

\* let torque
AcrobotStep(e, action) ==
    AcrobotStage1(e,
        CASE action = 0 -> -1000
          [] action = 1 -> 0
          [] OTHER      -> 1000)

----------------------------------------------------------------------------
(* LunarLanderEnv *)

LunarLanderP ==
    [gravity |-> 600, main_thrust |-> 1200, side_thrust |-> 600,
     ang_damp |-> 150, lin_damp |-> 20, dt |-> 50, x_limit |-> 1200,
     y_limit |-> 1500, pad_half_width |-> 200]

LunarLanderNew(seed) ==
    [kind |-> "LunarLander",
     s |-> [x |-> 0, y |-> 1000, vx |-> 0, vy |-> 0, angle |-> 0, vang |-> 0,
            left_contact |-> FALSE, right_contact |-> FALSE],
     steps |-> 0, max_episode_steps |-> 1000, rng |-> rng_from_seed(seed)]

LunarLanderObs(e) ==
    <<e.s.x, e.s.y, e.s.vx, e.s.vy, e.s.angle, e.s.vang,
      IF e.s.left_contact THEN Scale ELSE 0,
      IF e.s.right_contact THEN Scale ELSE 0>>

landed_success(s) ==
    /\ s.y <= 0
    /\ Abs(s.vy) < 300
    /\ Abs(s.vx) < 300
    /\ Abs(s.angle) < 200
    /\ Abs(s.x) <= LunarLanderP.pad_half_width

crashed(s) ==
    \/ s.y <= 0 /\ (Abs(s.vy) >= 600 \/ Abs(s.angle) >= 400)
    \/ Abs(s.x) > LunarLanderP.x_limit
    \/ s.y > LunarLanderP.y_limit
    \/ s.y < -200

\* if action == 2: the main engine
MainEngine(s, action) ==
    IF action = 2
    THEN [s EXCEPT !.vx = @ + Mul(Mul(-Sin(s.angle), LunarLanderP.main_thrust),
                                  LunarLanderP.dt),
                   !.vy = @ + Mul(Mul(Cos(s.angle), LunarLanderP.main_thrust),
                                  LunarLanderP.dt)]
    ELSE s

\* if action == 1: the left engine
LeftEngine(s, action) ==
    IF action = 1
    THEN [s EXCEPT !.vx = @ + Mul(LunarLanderP.side_thrust, LunarLanderP.dt),
                   !.vang = @ - Mul(Mul(1500, LunarLanderP.side_thrust), LunarLanderP.dt)]
    ELSE s

\* if action == 3: the right engine
RightEngine(s, action) ==
    IF action = 3
    THEN [s EXCEPT !.vx = @ - Mul(LunarLanderP.side_thrust, LunarLanderP.dt),
                   !.vang = @ + Mul(Mul(1500, LunarLanderP.side_thrust), LunarLanderP.dt)]
    ELSE s

apply_action(s, action) ==
    RightEngine(LeftEngine(MainEngine(s, action), action), action)

LunarLanderSample(e, rng) ==
    [e EXCEPT !.s = [x |-> SampleUniform(-50, 50, rng, 0), y |-> 1200,
                     vx |-> 0, vy |-> 0,
                     angle |-> SampleUniform(-100, 100, rng, 1), vang |-> 0,
                     left_contact |-> FALSE, right_contact |-> FALSE],
              !.rng = Advance(rng, 2),
              !.steps = 0]

LunarLanderReset(e, seed) ==
    LET e1 == LunarLanderSample(e, Reseed(e.rng, seed))
    IN  [env |-> e1, ret |-> <<LunarLanderObs(e1), NewInfo>>]

\* step, one operator for each group of statements

\* self.vy -= self.gravity * dt
Gravity(s) == [s EXCEPT !.vy = @ - Mul(LunarLanderP.gravity, LunarLanderP.dt)]

Damping(s) ==
    [s EXCEPT !.vx = Mul(@, Scale - LunarLanderP.lin_damp),
              !.vy = Mul(@, Scale - Mul(LunarLanderP.lin_damp, 500)),
              !.vang = Mul(@, Scale - LunarLanderP.ang_damp)]

\* the integration, and the angle kept in [-pi, pi]
Integrate(s) ==
    [s EXCEPT !.x = @ + Mul(s.vx, LunarLanderP.dt),
              !.y = @ + Mul(s.vy, LunarLanderP.dt),
              !.angle = Rem(Rem(@ + Mul(s.vang, LunarLanderP.dt) + Pi, 2 * Pi) + 2 * Pi,
                            2 * Pi) - Pi]

\* a faulty variant of GroundContact: the lander is not clamped at the ground
GroundContactSinks(s) ==
    IF s.y <= 0
    THEN [s EXCEPT !.left_contact = Abs(s.x - 50) <= LunarLanderP.pad_half_width,
                   !.right_contact = Abs(s.x + 50) <= LunarLanderP.pad_half_width]
    ELSE [s EXCEPT !.left_contact = FALSE, !.right_contact = FALSE]

\* ground collision and contacts
GroundContact(s) ==
    IF s.y <= 0
    THEN [s EXCEPT !.left_contact = Abs(s.x - 50) <= LunarLanderP.pad_half_width,
                   !.right_contact = Abs(s.x + 50) <= LunarLanderP.pad_half_width,
                   !.y = 0, !.vy = 0]
    ELSE [s EXCEPT !.left_contact = FALSE, !.right_contact = FALSE]

\* the reward shaping of the state s the step has reached
LunarLanderReward(s) ==
    - Mul(Abs(Div(s.x, LunarLanderP.x_limit)), 500)
    - Mul(Abs(s.vx) + Abs(s.vy), 100)
    - Mul(Abs(s.angle), 200)
    + (IF landed_success(s) THEN 100000 ELSE 0)
    - (IF crashed(s) THEN 100000 ELSE 0)

\* steps += 1 is done: terminated, truncated, reward and the result
LunarLanderReturn(e1) ==
    [env |-> e1,
     ret |-> NewStep(LunarLanderObs(e1), LunarLanderReward(e1.s),
                     landed_success(e1.s) \/ crashed(e1.s),
                     TruncatedAt(e1.steps, e1.max_episode_steps), NewInfo)]

LunarLanderStep(e, action) ==
    LunarLanderReturn(
        [e EXCEPT !.s = GroundContact(Integrate(Damping(
                            apply_action(Gravity(e.s),
                                         IF action < 3 THEN action ELSE 3)))),
                  !.steps = @ + 1])

----------------------------------------------------------------------------
(* The Env trait: the six implementations behind one interface *)

Kinds ==
    {"CartPole", "Pendulum", "MountainCar", "MountainCarContinuous",
     "Acrobot", "LunarLander"}

New(kind, seed) ==
    CASE kind = "CartPole"              -> CartPoleNew(seed)
      [] kind = "Pendulum"              -> PendulumNew(seed)
      [] kind = "MountainCar"           -> MountainCarNew(seed)
      [] kind = "MountainCarContinuous" -> MountainCarContinuousNew(seed)
      [] kind = "Acrobot"               -> AcrobotNew(seed)
      [] kind = "LunarLander"           -> LunarLanderNew(seed)

\* the seed of each impl Default
DefaultSeed(kind) ==
    CASE kind = "CartPole"              -> U64(1234567)
      [] kind = "Pendulum"              -> U64(42)
      [] kind = "MountainCar"           -> U64(2024)
      [] kind = "MountainCarContinuous" -> U64(2024)
      [] kind = "Acrobot"               -> U64(7)
      [] kind = "LunarLander"           -> U64(2025)

Default(kind) == New(kind, DefaultSeed(kind))

Reset(e, seed) ==
    CASE e.kind = "CartPole"              -> CartPoleReset(e, seed)
      [] e.kind = "Pendulum"              -> PendulumReset(e, seed)
      [] e.kind = "MountainCar"           -> MountainCarReset(e, seed)
      [] e.kind = "MountainCarContinuous" -> MountainCarReset(e, seed)
      [] e.kind = "Acrobot"               -> AcrobotReset(e, seed)
      [] e.kind = "LunarLander"           -> LunarLanderReset(e, seed)

Step(e, action) ==
    CASE e.kind = "CartPole"              -> CartPoleStep(e, action)
      [] e.kind = "Pendulum"              -> PendulumStep(e, action)
      [] e.kind = "MountainCar"           -> MountainCarStep(e, action)
      [] e.kind = "MountainCarContinuous" -> MountainCarContinuousStep(e, action)
      [] e.kind = "Acrobot"               -> AcrobotStep(e, action)
      [] e.kind = "LunarLander"           -> LunarLanderStep(e, action)

\* 32-bit words one reset draws from the stream
Draws(kind) ==
    CASE kind = "CartPole"              -> 4
      [] kind = "Pendulum"              -> 2
      [] kind = "MountainCar"           -> 1
      [] kind = "MountainCarContinuous" -> 1
      [] kind = "Acrobot"               -> 4
      [] kind = "LunarLander"           -> 2

----------------------------------------------------------------------------
(* Inputs *)

\* the actions of each action space (the continuous throttle in 1 / Scale)
Actions(kind) ==
    CASE kind = "CartPole"              -> {0, 1}
      [] kind = "Pendulum"              -> {0, 1, 2}
      [] kind = "MountainCar"           -> {0, 1, 2}
      [] kind = "MountainCarContinuous" -> {-1000, 0, 500}
      [] kind = "Acrobot"               -> {0, 1, 2}
      [] kind = "LunarLander"           -> {0, 1, 2, 3}

Seeds == {U64(0), U64(1), U64Max}

SeedArgs == {None} \cup {Some(s) : s \in Seeds}

\* a step budget a caller writes into the public field max_episode_steps
EpisodeLimit == 2

----------------------------------------------------------------------------
(* A standalone environment driven through the Env trait.                  *)
(* out is the last call and what it returned; hist is the seed of the last *)
(* reset, the actions stepped since, and whether the instance had been     *)
(* reset or stepped before that reset.                                     *)

NoBatch ==
    /\ envs = <<>>
    /\ vout = [op |-> "none"]
    /\ vhist = [base |-> None, calls |-> <<>>]
    /\ panicked = FALSE

\* no Info, space or SeedSequence is in use
NoObj ==
    /\ obj = [kind |-> "none"]
    /\ call = [op |-> "none"]
    /\ log = <<>>

InitEnv ==
    /\ \E kind \in Kinds : \E seed \in {DefaultSeed(kind), U64(1)} :
          /\ env = New(kind, seed)
          /\ out = [op |-> "new", arg |-> seed]
          /\ hist = [seed |-> None, acts |-> <<>>, used |-> FALSE]
    /\ NoBatch
    /\ NoObj

\* the caller shortens the episode before the first use
SetMaxEpisodeSteps(m) ==
    /\ out.op = "new"
    /\ env' = [env EXCEPT !.max_episode_steps = m]
    /\ out' = [op |-> "set_max_episode_steps", arg |-> m]
    /\ UNCHANGED <<hist, envs, vout, vhist, panicked, obj, call, log>>

EnvReset(seed) ==
    /\ out.op # "none"
    /\ IsSome(seed) \/ env.rng.pos < MaxResets * Draws(env.kind)
    /\ LET r == Reset(env, seed)
       IN  /\ env' = r.env
           /\ out' = [op |-> "reset", arg |-> seed, ret |-> r.ret]
           /\ hist' = [seed |-> seed, acts |-> <<>>, used |-> out.op \in {"reset", "step"}]
    /\ UNCHANGED <<envs, vout, vhist, panicked, obj, call, log>>

EnvStep(action) ==
    /\ out.op # "none"
    /\ Len(hist.acts) < MaxSteps
    /\ LET r == Step(env, action)
       IN  /\ env' = r.env
           /\ out' = [op |-> "step", arg |-> action, ret |-> r.ret]
           /\ hist' = [hist EXCEPT !.acts = Append(@, action)]
    /\ UNCHANGED <<envs, vout, vhist, panicked, obj, call, log>>

NextEnv ==
    \/ SetMaxEpisodeSteps(EpisodeLimit)
    \/ \E seed \in SeedArgs : EnvReset(seed)
    \/ \E action \in Actions(env.kind) : EnvStep(action)

SpecEnv == InitEnv /\ [][NextEnv]_vars

----------------------------------------------------------------------------
(* SyncVectorEnv *)

\* SyncVectorEnv::new(n, || E::default())
SyncVectorEnvNew(n, kind) == [i \in 1..n |-> Default(kind)]

\* a faulty variant of MemberSeed: the members are counted from 1
MemberSeedFromOne(base_seed, i) ==
    IF IsSome(base_seed)
    THEN [seed |-> Some(AddU64(Unwrap(base_seed), i + 1).value),
          overflow |-> AddU64(Unwrap(base_seed), i + 1).overflow]
    ELSE [seed |-> None, overflow |-> FALSE]

\* base_seed.map(|s| s + i as u64) for the member of index i (from 0): the
\* seed, and whether the addition overflows u64
MemberSeed(base_seed, i) ==
    IF IsSome(base_seed)
    THEN [seed |-> Some(AddU64(Unwrap(base_seed), i).value),
          overflow |-> AddU64(Unwrap(base_seed), i).overflow]
    ELSE [seed |-> None, overflow |-> FALSE]

SetMin(S) == CHOOSE x \in S : \A y \in S : x <= y
SetMax(S) == CHOOSE x \in S : \A y \in S : x >= y

\* a faulty variant of reset_all: without a base seed the members are
\* seeded with their indices
reset_allByIndex(es, base_seed, overflow_checks) ==
    LET n == Len(es)
        r == [i \in 1..n |->
                 Reset(es[i], IF IsSome(base_seed)
                              THEN MemberSeed(base_seed, i - 1).seed
                              ELSE Some(U64(i - 1)))]
    IN  [envs |-> [i \in 1..n |-> r[i].env], panic |-> FALSE,
         ret |-> [i \in 1..n |-> r[i].ret]]

\* reset_all.  The iterator resets the members in index order.  An addition
\* that overflows panics in a build with overflow checks (the members before
\* it are already reset, nothing is returned) and wraps in a build without.
reset_all(es, base_seed, overflow_checks) ==
    LET n == Len(es)
        bad == {i \in 1..n : MemberSeed(base_seed, i - 1).overflow}
        stop == IF overflow_checks /\ bad # {} THEN SetMin(bad) ELSE n + 1
        r == [i \in 1..n |-> Reset(es[i], MemberSeed(base_seed, i - 1).seed)]
    IN  [envs |-> [i \in 1..n |-> IF i < stop THEN r[i].env ELSE es[i]],
         panic |-> stop <= n,
         ret |-> IF stop <= n THEN <<>> ELSE [i \in 1..n |-> r[i].ret]]

\* a faulty variant of LenMatches: the assertion is missing
LenUnchecked(actions, es) == TRUE

\* assert_eq!(actions.len(), self.envs.len(), ...)
LenMatches(actions, es) == Len(actions) = Len(es)

\* a faulty variant of Zip: the actions are taken from the back
ZipReversed(es, actions) ==
    [i \in 1..(IF Len(es) < Len(actions) THEN Len(es) ELSE Len(actions)) |->
        [e |-> es[i], a |-> actions[Len(actions) + 1 - i]]]

\* self.envs.iter_mut().zip(actions.into_iter()): pairs up to the shorter
Zip(es, actions) ==
    [i \in 1..(IF Len(es) < Len(actions) THEN Len(es) ELSE Len(actions)) |->
        [e |-> es[i], a |-> actions[i]]]

\* a faulty variant of step_all: a member whose episode has ended is reset
step_allAutoReset(es, actions) ==
    IF ~LenMatches(actions, es)
    THEN [envs |-> es, panic |-> TRUE, ret |-> <<>>]
    ELSE LET r == [i \in 1..Len(es) |-> Step(es[i], actions[i])]
         IN  [envs |-> [i \in 1..Len(es) |->
                           IF r[i].ret.terminated \/ r[i].ret.truncated
                           THEN Reset(r[i].env, None).env ELSE r[i].env],
              panic |-> FALSE,
              ret |-> [i \in 1..Len(es) |-> r[i].ret]]

step_all(es, actions) ==
    IF ~LenMatches(actions, es)
    THEN [envs |-> es, panic |-> TRUE, ret |-> <<>>]
    ELSE LET z == Zip(es, actions)
             r == [i \in 1..Len(z) |-> Step(z[i].e, z[i].a)]
         IN  [envs |-> [i \in 1..Len(es) |-> IF i <= Len(z) THEN r[i].env ELSE es[i]],
              panic |-> FALSE,
              ret |-> [i \in 1..Len(z) |-> r[i].ret]]

----------------------------------------------------------------------------
(* A batch driven through reset_all and step_all.                          *)
(* vout is the last call and what it returned; vhist is the base seed of   *)
(* the last reset_all and the action batches stepped since.                *)

NoEnv(kind) ==
    /\ env = Default(kind)
    /\ out = [op |-> "none"]
    /\ hist = [seed |-> None, acts |-> <<>>, used |-> FALSE]

InitVec ==
    /\ \E kind \in Kinds : \E n \in 0..MaxN :
          /\ envs = SyncVectorEnvNew(n, kind)
          /\ vout = [op |-> "new", arg |-> n, kind |-> kind]
          /\ NoEnv(kind)
    /\ vhist = [base |-> None, calls |-> <<>>]
    /\ panicked = FALSE
    /\ NoObj

\* action batches: every batch of the right length, and one batch that is
\* one action short and one that is one action long
\* (of the least and the greatest action of the space)
Batches(kind, n) ==
    [1..n -> {SetMin(Actions(kind)), SetMax(Actions(kind))}]
    \cup {[i \in 1..m |-> SetMin(Actions(kind))] : m \in {k \in {n - 1, n + 1} : k >= 0}}

BatchCap(n) == IF n = 0 THEN 1 ELSE MaxMemberSteps \div n

ResetAll(base_seed, overflow_checks) ==
    /\ vout.op # "none"
    /\ ~panicked
    /\ IsSome(base_seed)
         \/ \A i \in 1..Len(envs) : envs[i].rng.pos < MaxResets * Draws(envs[i].kind)
    /\ LET r == reset_all(envs, base_seed, overflow_checks)
       IN  /\ envs' = r.envs
           /\ panicked' = r.panic
           /\ vout' = [op |-> "reset_all", arg |-> base_seed, ret |-> r.ret]
    /\ vhist' = [base |-> base_seed, calls |-> <<>>]
    /\ UNCHANGED <<env, out, hist, obj, call, log>>

StepAll(actions) ==
    /\ vout.op # "none"
    /\ ~panicked
    /\ Len(vhist.calls) < BatchCap(Len(envs))
    /\ LET r == step_all(envs, actions)
       IN  /\ envs' = r.envs
           /\ panicked' = r.panic
           /\ vout' = [op |-> "step_all", arg |-> actions, ret |-> r.ret]
    /\ vhist' = [vhist EXCEPT !.calls = Append(@, actions)]
    /\ UNCHANGED <<env, out, hist, obj, call, log>>

NextVec ==
    \/ \E base_seed \in SeedArgs : \E overflow_checks \in BOOLEAN :
          /\ overflow_checks => \E i \in 1..Len(envs) : MemberSeed(base_seed, i - 1).overflow
          /\ ResetAll(base_seed, overflow_checks)
    \/ \E actions \in Batches(env.kind, Len(envs)) : StepAll(actions)

SpecVec == InitVec /\ [][NextVec]_vars

----------------------------------------------------------------------------
(* One cart-pole mid-episode, at the edges of the track and of the angle   *)
(* range: positions the cart drifts to while the pole is kept up.          *)

CartPoleGrid ==
    {[x |-> x, x_dot |-> x_dot, theta |-> theta, theta_dot |-> theta_dot] :
        x \in {-2405, -2395, 0, 2395, 2405}, x_dot \in {-500, 500},
        theta \in {-212, -206, 0, 206, 212}, theta_dot \in {-500, 500}}

InitStep ==
    /\ \E s \in CartPoleGrid :
          env = [Default("CartPole") EXCEPT !.s = s, !.steps = 250]
    /\ out = [op |-> "new", arg |-> DefaultSeed("CartPole")]
    /\ hist = [seed |-> None, acts |-> <<>>, used |-> TRUE]
    /\ NoBatch
    /\ NoObj

NextStep == \E action \in Actions(env.kind) : EnvStep(action)

SpecStep == InitStep /\ [][NextStep]_vars

----------------------------------------------------------------------------
(* Every environment mid-episode, in states at the edges of its box, at    *)
(* the goal, at the ends of the angle range and just above the ground,     *)
(* stepped with every action its action type admits, the ones beyond the   *)
(* valid range included.                                                   *)

EdgeStates(kind) ==
    CASE kind = "CartPole" -> CartPoleGrid
      [] kind = "Pendulum" ->
            {[theta |-> theta, theta_dot |-> theta_dot] :
                theta \in {-Pi, -3100, 0, 3100, Pi},
                theta_dot \in {-8000, -900, 0, 900, 8000}}
      [] kind \in {"MountainCar", "MountainCarContinuous"} ->
            {[position |-> position, velocity |-> velocity] :
                position \in {-12000, -11990, -5000, 4400, 4950, 5950},
                velocity \in {-700, -20, 0, 20, 700}}
      [] kind = "Acrobot" ->
            {[th1 |-> th1, th2 |-> th2, dth1 |-> dth1, dth2 |-> 0] :
                th1 \in {-Pi, 0, 3100}, th2 \in {-3100, 0, Pi},
                dth1 \in {-12500, 0, 12500}}
            \cup
            {[th1 |-> th1, th2 |-> th2, dth1 |-> 0, dth2 |-> dth2] :
                th1 \in {-Pi, 0, 3100}, th2 \in {-3100, 0, Pi},
                dth2 \in {-28000, 28000}}
      [] kind = "LunarLander" ->
            {[x |-> x, y |-> y, vx |-> 0, vy |-> vy, angle |-> angle, vang |-> vang,
              left_contact |-> FALSE, right_contact |-> FALSE] :
                x \in {0, 1190}, y \in {10, 40, 1480},
                vy \in {-1000, -700, -100, 700},
                angle \in {0, 300, 3100}, vang \in {0, 2000}}

\* the values of type Act a caller can pass: the valid ones, and one index
\* (or two throttles) outside the valid range
ActionsBeyond(kind) ==
    IF kind = "MountainCarContinuous"
    THEN Actions(kind) \cup {-2000, 1500}
    ELSE Actions(kind) \cup {SetMax(Actions(kind)) + 1}

InitEdge ==
    /\ \E kind \in Kinds : \E s \in EdgeStates(kind) :
          env = [Default(kind) EXCEPT !.s = s, !.steps = 100]
    /\ out = [op |-> "new", arg |-> DefaultSeed(env.kind)]
    /\ hist = [seed |-> None, acts |-> <<>>, used |-> TRUE]
    /\ NoBatch
    /\ NoObj

NextEdge ==
    /\ Len(hist.acts) < EdgeSteps
    /\ \E action \in ActionsBeyond(env.kind) : EnvStep(action)

SpecEdge == InitEdge /\ [][NextEdge]_vars

----------------------------------------------------------------------------
(* Info: the insertion-ordered map of core.rs.                             *)
(* obj is the object in use, call the last call on it and what it          *)
(* returned, log the arguments of the mutating calls made so far.          *)

InfoNew == [kind |-> "Info", entries |-> <<>>]

\* entries.iter().find(|(k, _)| k == key): the index of the first entry
\* with the key, 0 if there is none
InfoFind(info, key) ==
    IF \E i \in 1..Len(info.entries) : info.entries[i][1] = key
    THEN SetMin({i \in 1..Len(info.entries) : info.entries[i][1] = key})
    ELSE 0

\* a faulty variant of InfoInsert: the pair is always pushed
InfoInsertPush(info, key, value) ==
    [info EXCEPT !.entries = Append(@, <<key, value>>)]

InfoInsert(info, key, value) ==
    IF InfoFind(info, key) # 0
    THEN [info EXCEPT !.entries[InfoFind(info, key)] = <<key, value>>]
    ELSE [info EXCEPT !.entries = Append(@, <<key, value>>)]

InfoGet(info, key) ==
    IF InfoFind(info, key) # 0
    THEN Some(info.entries[InfoFind(info, key)][2])
    ELSE None

InfoIter(info) == info.entries

InfoLen(info) == Len(info.entries)

InfoKeys == {"a", "b", "c"}
\* InfoValue::I64
InfoValues == {1, 2}

NoTrial ==
    /\ NoEnv("CartPole")
    /\ NoBatch

InitInfo ==
    /\ obj = InfoNew
    /\ call = [op |-> "new"]
    /\ log = <<>>
    /\ NoTrial

Insert(key, value) ==
    /\ Len(log) < MaxInserts
    /\ obj' = InfoInsert(obj, key, value)
    /\ call' = [op |-> "insert", key |-> key, value |-> value]
    /\ log' = Append(log, <<key, value>>)
    /\ UNCHANGED <<env, out, hist, envs, vout, vhist, panicked>>

Get(key) ==
    /\ call' = [op |-> "get", key |-> key, ret |-> InfoGet(obj, key)]
    /\ UNCHANGED <<env, out, hist, envs, vout, vhist, panicked, obj, log>>

Iter ==
    /\ call' = [op |-> "iter", ret |-> InfoIter(obj)]
    /\ UNCHANGED <<env, out, hist, envs, vout, vhist, panicked, obj, log>>

GetLen ==
    /\ call' = [op |-> "len", ret |-> InfoLen(obj)]
    /\ UNCHANGED <<env, out, hist, envs, vout, vhist, panicked, obj, log>>

NextInfo ==
    \/ \E key \in InfoKeys : \E value \in InfoValues : Insert(key, value)
    \/ \E key \in InfoKeys : Get(key)
    \/ Iter
    \/ GetLen

SpecInfo == InitInfo /\ [][NextInfo]_vars

----------------------------------------------------------------------------
(* spaces/mod.rs: Discrete, MultiBinary, MultiDiscrete and BoxSpace.       *)
(* obj is the space constructed ([kind |-> "none"] when the constructor    *)
(* has panicked), call the last call and what it returned, log the stream  *)
(* the caller hands to sample.                                             *)

\* the elements of T: PartialOrd of a BoxSpace of floats: F(x) is the number
\* x / Scale, and NaN compares false with every element
NaN == <<>>
F(x) == <<x>>
Le(a, b) == a # NaN /\ b # NaN /\ a[1] <= b[1]

\* what a constructor leaves when its assert! fails
Aborted == [kind |-> "none"]

DiscreteNew(n) ==
    IF n > 0 THEN [kind |-> "Discrete", n |-> n] ELSE Aborted

DiscreteSample(sp, rng) ==
    IF sp.n = 1
    THEN [elem |-> 0, rng |-> rng]
    ELSE [elem |-> SampleUniform(0, sp.n - 1, rng, 0), rng |-> Advance(rng, 1)]

DiscreteContains(sp, elem) == elem < sp.n

MultiBinaryNew(n) ==
    IF n > 0 THEN [kind |-> "MultiBinary", n |-> n] ELSE Aborted

MultiBinarySample(sp, rng) ==
    [elem |-> [i \in 1..sp.n |-> SampleUniform(0, 1, rng, i - 1)],
     rng |-> Advance(rng, sp.n)]

\* a faulty variant of MultiBinaryContains: the length is not compared
MultiBinaryContainsAnyLen(sp, elem) ==
    \A i \in 1..Len(elem) : elem[i] = 0 \/ elem[i] = 1

MultiBinaryContains(sp, elem) ==
    /\ Len(elem) = sp.n
    /\ \A i \in 1..Len(elem) : elem[i] = 0 \/ elem[i] = 1

\* a faulty variant of MultiDiscreteNew: the sizes are not looked at
MultiDiscreteNewUnchecked(nvec) ==
    IF nvec # <<>> THEN [kind |-> "MultiDiscrete", nvec |-> nvec] ELSE Aborted

MultiDiscreteNew(nvec) ==
    IF nvec # <<>> /\ \A i \in 1..Len(nvec) : nvec[i] > 0
    THEN [kind |-> "MultiDiscrete", nvec |-> nvec]
    ELSE Aborted

\* a dimension of size 1 draws nothing from the stream
MultiDiscreteSample(sp, rng) ==
    [elem |-> [i \in 1..Len(sp.nvec) |->
                 IF sp.nvec[i] = 1 THEN 0
                 ELSE SampleUniform(0, sp.nvec[i] - 1, rng,
                          Cardinality({j \in 1..(i - 1) : sp.nvec[j] # 1}))],
     rng |-> Advance(rng, Cardinality({j \in 1..Len(sp.nvec) : sp.nvec[j] # 1}))]

MultiDiscreteContains(sp, elem) ==
    IF Len(elem) # Len(sp.nvec) THEN FALSE
    ELSE \A i \in 1..Len(elem) : elem[i] < sp.nvec[i]

\* low and high are arrays of the same length N
BoxSpaceNew(low, high) ==
    IF \A i \in 1..Len(low) : Le(low[i], high[i])
    THEN [kind |-> "Box", low |-> low, high |-> high]
    ELSE Aborted

\* a faulty variant of BoxSpaceSample: every dimension is drawn between the
\* bounds of the first
BoxSpaceSampleFirstBounds(sp, rng) ==
    [elem |-> [i \in 1..Len(sp.low) |->
                 F(SampleUniform(sp.low[1][1], sp.high[1][1], rng, i - 1))],
     rng |-> Advance(rng, Len(sp.low))]

BoxSpaceSample(sp, rng) ==
    [elem |-> [i \in 1..Len(sp.low) |->
                 F(SampleUniform(sp.low[i][1], sp.high[i][1], rng, i - 1))],
     rng |-> Advance(rng, Len(sp.low))]

BoxSpaceContains(sp, elem) ==
    \A i \in 1..Len(sp.low) : Le(sp.low[i], elem[i]) /\ Le(elem[i], sp.high[i])

\* the Space trait and the constructors, by the kind of space
SpaceNew(args) ==
    CASE args.kind = "Discrete"      -> DiscreteNew(args.n)
      [] args.kind = "MultiBinary"   -> MultiBinaryNew(args.n)
      [] args.kind = "MultiDiscrete" -> MultiDiscreteNew(args.nvec)
      [] args.kind = "Box"           -> BoxSpaceNew(args.low, args.high)

SpaceSample(sp, rng) ==
    CASE sp.kind = "Discrete"      -> DiscreteSample(sp, rng)
      [] sp.kind = "MultiBinary"   -> MultiBinarySample(sp, rng)
      [] sp.kind = "MultiDiscrete" -> MultiDiscreteSample(sp, rng)
      [] sp.kind = "Box"           -> BoxSpaceSample(sp, rng)

SpaceContains(sp, elem) ==
    CASE sp.kind = "Discrete"      -> DiscreteContains(sp, elem)
      [] sp.kind = "MultiBinary"   -> MultiBinaryContains(sp, elem)
      [] sp.kind = "MultiDiscrete" -> MultiDiscreteContains(sp, elem)
      [] sp.kind = "Box"           -> BoxSpaceContains(sp, elem)

(* Inputs *)

\* sequences of length 0 to 3 over S
UpTo3(S) == UNION {[1..m -> S] : m \in 0..3}

BoxValues == {NaN, F(-Scale), F(0), F(2500)}

\* constructor arguments, the invalid ones among them
SpaceArgs ==
    {[kind |-> "Discrete", n |-> n] : n \in 0..3}
    \cup {[kind |-> "MultiBinary", n |-> n] : n \in 0..2}
    \cup {[kind |-> "MultiDiscrete", nvec |-> nvec] :
              nvec \in UNION {[1..m -> {0, 1, 3}] : m \in 0..2}}
    \cup UNION {{[kind |-> "Box", low |-> low, high |-> high] :
                   low \in [1..N -> BoxValues], high \in [1..N -> BoxValues]} :
               N \in 1..2}

\* values of the element type of the space sp, members and non-members
Elements(sp) ==
    CASE sp.kind = "Discrete"      -> 0..4
      [] sp.kind = "MultiBinary"   -> UpTo3({0, 1, 2})
      [] sp.kind = "MultiDiscrete" -> UpTo3({0, 1, 2, 3})
      [] sp.kind = "Box"           -> [1..Len(sp.low) -> BoxValues \cup {F(700)}]
      [] OTHER                     -> {}

InitSpace ==
    /\ obj = Aborted
    /\ call = [op |-> "none"]
    /\ \E seed \in Seeds : log = rng_from_seed(seed)
    /\ NoTrial

Construct(args) ==
    /\ call.op = "none"
    /\ obj' = SpaceNew(args)
    /\ call' = [op |-> "new", args |-> args, panicked |-> SpaceNew(args) = Aborted]
    /\ UNCHANGED <<env, out, hist, envs, vout, vhist, panicked, log>>

Sample ==
    /\ obj # Aborted
    /\ log.pos < MaxDraws
    /\ call' = [op |-> "sample", ret |-> SpaceSample(obj, log).elem]
    /\ log' = SpaceSample(obj, log).rng
    /\ UNCHANGED <<env, out, hist, envs, vout, vhist, panicked, obj>>

Contains(elem) ==
    /\ obj # Aborted
    /\ call' = [op |-> "contains", arg |-> elem, ret |-> SpaceContains(obj, elem)]
    /\ UNCHANGED <<env, out, hist, envs, vout, vhist, panicked, obj, log>>

NextSpace ==
    \/ \E args \in SpaceArgs : Construct(args)
    \/ Sample
    \/ \E elem \in Elements(obj) : Contains(elem)

SpecSpace == InitSpace /\ [][NextSpace]_vars

----------------------------------------------------------------------------
(* utils/rng.rs: SeedSequence and split_n.                                 *)
(* The u64 and u128 values of the mixer are sequences of 8 and 16 bytes,   *)
(* least significant first, so that the arithmetic has its full width.     *)
(* obj is the SeedSequence, call the last call and what it returned, log   *)
(* the root seed and the sub-seeds drawn since new.                        *)

\* the i-th byte of a, 0 beyond its width (as u128 of a u64)
At(a, i) == IF i \in 1..Len(a) THEN a[i] ELSE 0

\* x ^ y on bytes
XorByte(x, y) ==
    LET bit(i) == (((x \div 2^i) % 2) + ((y \div 2^i) % 2)) % 2
    IN  bit(0) + 2 * bit(1) + 4 * bit(2) + 8 * bit(3)
        + 16 * bit(4) + 32 * bit(5) + 64 * bit(6) + 128 * bit(7)

\* a ^ b at the width of a (SubSeq has TLC compute the bytes once)
XorBytes(a, b) ==
    SubSeq([i \in 1..Len(a) |-> XorByte(a[i], At(b, i))], 1, Len(a))

\* the bytes of the column sums cols from column i on, c carried in; what is
\* carried out of the last column is dropped (wrapping)
RECURSIVE Propagate(_, _, _)
Propagate(cols, i, c) ==
    IF i > Len(cols) THEN <<>>
    ELSE <<(cols[i] + c) % 256>> \o Propagate(cols, i + 1, (cols[i] + c) \div 256)

\* a.wrapping_add(b) at the width of a
wrapping_add(a, b) ==
    Propagate(SubSeq([i \in 1..Len(a) |-> a[i] + At(b, i)], 1, Len(a)), 1, 0)

\* the sum of the byte products a[i] * b[k - i + 1] for i from i to k
RECURSIVE Column(_, _, _, _)
Column(a, b, k, i) ==
    IF i > k THEN 0 ELSE a[i] * At(b, k - i + 1) + Column(a, b, k, i + 1)

\* a.wrapping_mul(b) at the width of a
wrapping_mul(a, b) ==
    Propagate(SubSeq([k \in 1..Len(a) |-> Column(a, b, k, 1)], 1, Len(a)), 1, 0)

\* a >> s
Shr(a, s) ==
    SubSeq([k \in 1..Len(a) |->
               (At(a, k + (s \div 8)) \div 2^(s % 8))
               + ((At(a, k + (s \div 8) + 1) * 2^(8 - (s % 8))) % 256)],
           1, Len(a))

\* 0x9E3779B97F4A7C15
Golden == <<21, 124, 74, 127, 185, 121, 55, 158>>
\* 0xBF58476D1CE4E5B9
Mix1 == <<185, 229, 228, 28, 109, 71, 88, 191>>
\* 0x94D049BB133111EB
Mix2 == <<235, 17, 49, 19, 187, 73, 208, 148>>

\* the bytes of the seed u (four limbs, most significant first), and back
ToBytes(u) ==
    <<u[4] % 256, u[4] \div 256, u[3] % 256, u[3] \div 256,
      u[2] % 256, u[2] \div 256, u[1] % 256, u[1] \div 256>>
FromBytes(b) ==
    <<b[8] * 256 + b[7], b[6] * 256 + b[5], b[4] * 256 + b[3], b[2] * 256 + b[1]>>

\* a faulty variant of SeedSequenceNew: the seed is truncated to 32 bits
SeedSequenceNewLow(seed) ==
    [kind |-> "SeedSequence",
     state |-> XorBytes(ToBytes(<<0, 0, seed[3], seed[4]>>)
                            \o <<0, 0, 0, 0, 0, 0, 0, 0>>, Golden)]

\* (seed as u128) ^ 0x9E3779B97F4A7C15u128
SeedSequenceNew(seed) ==
    [kind |-> "SeedSequence",
     state |-> XorBytes(ToBytes(seed) \o <<0, 0, 0, 0, 0, 0, 0, 0>>, Golden)]

\* z ^ (z >> s)
XorShift(z, s) == XorBytes(z, Shr(z, s))

\* the three last statements of next_subseed
Finalize(z) ==
    XorShift(wrapping_mul(XorShift(wrapping_mul(XorShift(z, 30), Mix1), 27), Mix2), 31)

\* self.state = (self.state ^ (z as u128)).wrapping_mul(...), and the result
SubseedFrom(ss, z) ==
    [ss |-> [ss EXCEPT !.state = wrapping_mul(XorBytes(ss.state, z), Mix1)],
     ret |-> FromBytes(Finalize(z))]

\* let mut z = (self.state as u64).wrapping_add(0x9E3779B97F4A7C15)
next_subseed(ss) ==
    SubseedFrom(ss, wrapping_add(SubSeq(ss.state, 1, 8), Golden))

\* (0..n).map(|_| self.next_subseed()).collect(), acc collected so far
RECURSIVE Collect(_, _, _)
RECURSIVE CollectNext(_, _, _)
Collect(ss, n, acc) ==
    IF n = 0 THEN [ss |-> ss, ret |-> acc]
    ELSE CollectNext(next_subseed(ss), n, acc)
CollectNext(r, n, acc) == Collect(r.ss, n - 1, Append(acc, r.ret))

\* a faulty variant of SeedSequenceSplitN: every sub-seed is drawn from the
\* state the call began with
SeedSequenceSplitNSameState(ss, n) ==
    [ss |-> next_subseed(ss).ss, ret |-> [i \in 1..n |-> next_subseed(ss).ret]]

\* SeedSequence::split_n
SeedSequenceSplitN(ss, n) == Collect(ss, n, <<>>)

\* the free function split_n
split_n(seed, n) == SeedSequenceSplitN(SeedSequenceNew(seed), n).ret

(* Inputs *)

\* 2^48 and 2^63 among them: seeds that differ in the upper bits only
RootSeeds ==
    Seeds \cup {U64(2), U64(999), U64(12345), U64(12346),
                <<1, 0, 0, 0>>, <<Limb \div 2, 0, 0, 0>>}

InitSeed ==
    /\ \E seed \in RootSeeds :
          /\ obj = SeedSequenceNew(seed)
          /\ call = [op |-> "new", arg |-> seed]
          /\ log = [seed |-> seed, subseeds |-> <<>>]
    /\ NoTrial

NextSubseed ==
    /\ Len(log.subseeds) < MaxSubseeds
    /\ obj' = next_subseed(obj).ss
    /\ call' = [op |-> "next_subseed", ret |-> next_subseed(obj).ret]
    /\ log' = [log EXCEPT !.subseeds = Append(@, next_subseed(obj).ret)]
    /\ UNCHANGED <<env, out, hist, envs, vout, vhist, panicked>>

\* RngStream::seed_from_u64(self.next_subseed())
NextRng ==
    /\ Len(log.subseeds) < MaxSubseeds
    /\ obj' = next_subseed(obj).ss
    /\ call' = [op |-> "next_rng", ret |-> rng_from_seed(next_subseed(obj).ret)]
    /\ log' = [log EXCEPT !.subseeds = Append(@, next_subseed(obj).ret)]
    /\ UNCHANGED <<env, out, hist, envs, vout, vhist, panicked>>

SplitN(n) ==
    /\ Len(log.subseeds) + n <= MaxSubseeds
    /\ obj' = SeedSequenceSplitN(obj, n).ss
    /\ call' = [op |-> "split_n", n |-> n, ret |-> SeedSequenceSplitN(obj, n).ret]
    /\ log' = [log EXCEPT !.subseeds = @ \o SeedSequenceSplitN(obj, n).ret]
    /\ UNCHANGED <<env, out, hist, envs, vout, vhist, panicked>>

NextSeed ==
    \/ NextSubseed
    \/ NextRng
    \/ \E n \in 0..MaxSubseeds : SplitN(n)

SpecSeed == InitSeed /\ [][NextSeed]_vars

----------------------------------------------------------------------------
(* utils/render2d.rs: Canvas.  A pixel is one colour (four bytes of the    *)
(* buffer), pixels[i] the pixel of index i - 1: the buffer has             *)
(* 4 * Len(pixels) bytes.                                                  *)

CanvasNew(width, height) ==
    [kind |-> "Canvas", width |-> width, height |-> height,
     pixels |-> [i \in 1..(width * height) |-> "BLACK"]]

clear(c, color) == [c EXCEPT !.pixels = [i \in 1..Len(c.pixels) |-> color]]

put_pixel(c, x, y, color) ==
    IF x < 0 \/ y < 0 THEN c
    ELSE IF x >= c.width \/ y >= c.height THEN c
    ELSE [c EXCEPT !.pixels[y * c.width + x + 1] = color]

\* v as u32 of an i32: a negative v becomes v + 2^32, which is beyond every
\* index of a buffer; far, a number beyond every index, stands for it
AsU32(v, far) == IF v < 0 THEN far ELSE v

\* let x0, y0, x1, y1 of fill_rect
FillRectSpan(width, height, x, y, w, h) ==
    [x0 |-> IF x > 0 THEN x ELSE 0,
     y0 |-> IF y > 0 THEN y ELSE 0,
     x1 |-> AsU32(IF x + w < width THEN x + w ELSE width, width * height + 1),
     y1 |-> AsU32(IF y + h < height THEN y + h ELSE height, width * height + 1)]

\* the loops of fill_rect panic: they index the buffer beyond its end (the
\* largest index they form is that of the last pixel of the span), or, with
\* no pixel in a row and y1 beyond 2^31, yy * self.width overflows u32 in a
\* build with overflow checks
FillRectPanics(width, height, s, overflow_checks) ==
    /\ s.y0 < s.y1
    /\ \/ s.x0 < s.x1 /\ (s.y1 - 1) * width + (s.x1 - 1) >= width * height
       \/ overflow_checks /\ s.y1 > height /\ width >= 2

\* the loops come to (yy, xx): no pixel of the span before it, rows first,
\* is beyond the end of the buffer
FillRectReaches(c, s, yy, xx) ==
    \A y2 \in s.y0..yy : \A x2 \in s.x0..(s.x1 - 1) :
        (y2 < yy \/ x2 < xx) => y2 * c.width + x2 < Len(c.pixels)

\* for yy in y0..y1 { for xx in x0..x1 { self.pixels[idx] = color } }
FillRectLoops(c, s, color, overflow_checks) ==
    [canvas |-> [c EXCEPT !.pixels =
                   [i \in 1..Len(c.pixels) |->
                      IF \E yy \in s.y0..(s.y1 - 1) : \E xx \in s.x0..(s.x1 - 1) :
                            /\ yy * c.width + xx = i - 1
                            /\ FillRectReaches(c, s, yy, xx)
                      THEN color ELSE c.pixels[i]]],
     panicked |-> FillRectPanics(c.width, c.height, s, overflow_checks)]

fill_rect(c, x, y, w, h, color, overflow_checks) ==
    IF w <= 0 \/ h <= 0 THEN [canvas |-> c, panicked |-> FALSE]
    ELSE FillRectLoops(c, FillRectSpan(c.width, c.height, x, y, w, h), color,
                       overflow_checks)

\* the arguments of the calls: coordinates off the canvas on every side and
\* on it, and sizes from nothing to more than the canvas
Coordinates == {-3, -1, 0, 1, 3}

Sizes == {0, 1, 2, 5}

InitCanvas ==
    /\ NoEnv("CartPole")
    /\ NoBatch
    /\ obj = CanvasNew(3, 2)
    /\ call = [op |-> "new", n |-> 0, panicked |-> FALSE]
    /\ log = <<>>

\* log is the buffer before the call
PutPixel(x, y, color) ==
    /\ ~call.panicked
    /\ call.n < CanvasCalls
    /\ obj' = put_pixel(obj, x, y, color)
    /\ call' = [op |-> "put_pixel", arg |-> <<x, y, 1, 1>>, color |-> color,
                n |-> call.n + 1, panicked |-> FALSE]
    /\ log' = obj.pixels
    /\ UNCHANGED <<env, out, hist, envs, vout, vhist, panicked>>

\* a call that panics leaves the buffer as the loops have written it
FillRect(x, y, w, h, color, overflow_checks) ==
    /\ ~call.panicked
    /\ call.n < CanvasCalls
    /\ obj' = fill_rect(obj, x, y, w, h, color, overflow_checks).canvas
    /\ call' = [op |-> "fill_rect", arg |-> <<x, y, w, h>>, color |-> color,
                n |-> call.n + 1,
                panicked |-> fill_rect(obj, x, y, w, h, color, overflow_checks).panicked]
    /\ log' = obj.pixels
    /\ UNCHANGED <<env, out, hist, envs, vout, vhist, panicked>>

NextCanvas ==
    \/ \E x, y \in Coordinates : PutPixel(x, y, "WHITE")
    \/ \E x, y \in Coordinates, w, h \in Sizes, overflow_checks \in BOOLEAN :
          /\ overflow_checks => y + h < 0
          /\ FillRect(x, y, w, h, "RED", overflow_checks)

SpecCanvas == InitCanvas /\ [][NextCanvas]_vars

----------------------------------------------------------------------------
(* render: each environment draws on a canvas of its default size.  The    *)
(* lines are drawn with put_pixel, which skips what is off the canvas; the *)
(* model keeps the size of the canvas and the rectangles given to          *)
(* fill_rect, <<x, y, w, h>>, in the order of the calls.                   *)

\* render_pixels(320, 240) of CartPoleEnv
CartPoleRender(e) ==
    [width |-> 320, height |-> 240,
     rects |-> << <<Quot(480000 + 200 * e.s.x, 3000) - 25, 150, 50, 30>> >>]

\* render_pixels(320, 240) of PendulumEnv: the support and the bob
PendulumRender(e) ==
    [width |-> 320, height |-> 240,
     rects |-> << <<130, 66, 60, 12>>,
                  <<160 + Quot(Sin(e.s.theta) * 108, Scale) - 10,
                    72 + Quot(Cos(e.s.theta) * 108, Scale) - 10, 20, 20>> >>]

\* render_pixels(320, 240) of both mountain cars: the car on the terrain
MountainCarRender(e) ==
    [width |-> 320, height |-> 240,
     rects |-> << <<20 + Quot(Clamp(e.s.position - MountainCarP.min_position, 0,
                                    MountainCarP.max_position
                                        - MountainCarP.min_position) * 280,
                              MountainCarP.max_position - MountainCarP.min_position)
                       - 10,
                    168 - Quot(Sin(Quot(3 * e.s.position, McScale \div Scale)) * 60,
                               Scale) - 12 - 2,
                    20, 12>> >>]

\* let x1, y1, x2, y2 of AcrobotEnv::render_pixels, in 1 / Scale of a pixel
AcrobotJoints(e) ==
    [x1 |-> 200 * Scale + Mul(AcrobotP.l1, Sin(e.s.th1)) * 128,
     y1 |-> 40 * Scale + Mul(AcrobotP.l1, Cos(e.s.th1)) * 128,
     x2 |-> 200 * Scale + Mul(AcrobotP.l1, Sin(e.s.th1)) * 128
            + Mul(AcrobotP.l2, Sin(e.s.th1 + e.s.th2)) * 128,
     y2 |-> 40 * Scale + Mul(AcrobotP.l1, Cos(e.s.th1)) * 128
            + Mul(AcrobotP.l2, Cos(e.s.th1 + e.s.th2)) * 128]

\* render_pixels(400, 400) of AcrobotEnv: the mount and the three joints
AcrobotRender(j) ==
    [width |-> 400, height |-> 400,
     rects |-> << <<180, 32, 40, 8>>, <<196, 36, 8, 8>>,
                  <<Quot(j.x1, Scale) - 4, Quot(j.y1, Scale) - 4, 8, 8>>,
                  <<Quot(j.x2, Scale) - 4, Quot(j.y2, Scale) - 4, 8, 8>> >>]

\* let cx, cy of LunarLanderEnv::render_pixels
LunarLanderCentre(s) ==
    [cx |-> 20 + Quot(Clamp(s.x + LunarLanderP.x_limit, 0, 2 * LunarLanderP.x_limit)
                          * 360, 2 * LunarLanderP.x_limit),
     cy |-> 20 + Quot((LunarLanderP.y_limit + 200
                          - Clamp(s.y + 200, 0, LunarLanderP.y_limit + 200)) * 260,
                      LunarLanderP.y_limit + 200)]

\* render_pixels(400, 300) of LunarLanderEnv: the body and the contacts
LunarLanderRender(s, m) ==
    [width |-> 400, height |-> 300,
     rects |-> << <<m.cx - 9, m.cy - 12, 18, 24>> >>
               \o (IF s.left_contact
                   THEN << <<m.cx - 9 - 7, m.cy + 12 + 10 - 2, 4, 4>> >> ELSE <<>>)
               \o (IF s.right_contact
                   THEN << <<m.cx + 9 + 3, m.cy + 12 + 10 - 2, 4, 4>> >> ELSE <<>>)]

render_pixels(e) ==
    CASE e.kind = "CartPole"              -> CartPoleRender(e)
      [] e.kind = "Pendulum"              -> PendulumRender(e)
      [] e.kind = "MountainCar"           -> MountainCarRender(e)
      [] e.kind = "MountainCarContinuous" -> MountainCarRender(e)
      [] e.kind = "Acrobot"               -> AcrobotRender(AcrobotJoints(e))
      [] e.kind = "LunarLander"           -> LunarLanderRender(e.s, LunarLanderCentre(e.s))

\* canvas.into_render_frame() if no fill_rect has panicked
RenderFrame(r, overflow_checks) ==
    IF \E i \in 1..Len(r.rects) :
          /\ r.rects[i][3] > 0 /\ r.rects[i][4] > 0
          /\ FillRectPanics(r.width, r.height,
                 FillRectSpan(r.width, r.height, r.rects[i][1], r.rects[i][2],
                              r.rects[i][3], r.rects[i][4]), overflow_checks)
    THEN [panicked |-> TRUE]
    ELSE [panicked |-> FALSE, width |-> r.width, height |-> r.height,
          data_len |-> r.width * r.height * 4]

\* Env::render: Some(self.render_pixels(..))
render(e, overflow_checks) == RenderFrame(render_pixels(e), overflow_checks)

\* a render that has panicked has ended the program
Running == out.op = "render" => ~out.ret.panicked

Render(overflow_checks) ==
    /\ out.op # "none"
    /\ Running
    /\ env' = env
    /\ out' = [op |-> "render", ret |-> render(env, overflow_checks)]
    /\ UNCHANGED <<hist, envs, vout, vhist, panicked, obj, call, log>>

RenderReset(seed) == Running /\ EnvReset(seed)

RenderStep(action) ==
    Running /\ Len(hist.acts) < RenderSteps /\ EnvStep(action)

NextRender ==
    \/ \E seed \in SeedArgs : RenderReset(seed)
    \/ \E action \in Actions(env.kind) : RenderStep(action)
    \/ \E overflow_checks \in BOOLEAN : Render(overflow_checks)

SpecRender == InitEnv /\ [][NextRender]_vars

----------------------------------------------------------------------------
(* wrappers: TimeLimit and RecordEpisodeStatistics around an environment.  *)
(* env is the inner environment and out its last call; obj is the wrapper, *)
(* call the last call on the wrapper and what it returned, and log the     *)
(* results of the inner steps since the last reset of the wrapper.         *)

TimeLimitNew(max_steps) ==
    [kind |-> "TimeLimit", max_steps |-> max_steps, steps |-> 0]

\* self.steps = 0; self.inner.reset(seed)
TimeLimitReset(w, r) ==
    [w |-> [w EXCEPT !.steps = 0], env |-> r.env, inner |-> r.ret, ret |-> r.ret]

\* a faulty variant of TimeLimitTruncate: an episode the inner environment
\* has terminated is marked truncated as well
TimeLimitTruncateAny(w, r) ==
    [w |-> w, env |-> r.env, inner |-> r.ret,
     ret |-> IF w.steps >= w.max_steps
             THEN [r.ret EXCEPT !.truncated = TRUE] ELSE r.ret]

\* if !s.terminated && !s.truncated && self.steps >= self.max_steps
TimeLimitTruncate(w, r) ==
    [w |-> w, env |-> r.env, inner |-> r.ret,
     ret |-> IF ~r.ret.terminated /\ ~r.ret.truncated /\ w.steps >= w.max_steps
             THEN [r.ret EXCEPT !.truncated = TRUE] ELSE r.ret]

\* let mut s = self.inner.step(action); self.steps += 1; ...
TimeLimitStep(w, r) == TimeLimitTruncate([w EXCEPT !.steps = @ + 1], r)

RecordEpisodeStatisticsNew ==
    [kind |-> "RecordEpisodeStatistics", ep_return |-> 0, ep_length |-> 0]

RecordEpisodeStatisticsReset(w, r) ==
    [w |-> [w EXCEPT !.ep_return = 0, !.ep_length = 0],
     env |-> r.env, inner |-> r.ret, ret |-> r.ret]

\* the two info.insert calls, on the entries of s.info
RecordEpisodeStatisticsInsert(w, info) ==
    InfoInsert(InfoInsert([kind |-> "Info", entries |-> info],
                          "episode_return", <<"F64", w.ep_return>>),
               "episode_length", <<"I64", w.ep_length>>).entries

\* a faulty variant of RecordEpisodeStatisticsReport: the counters run on
\* after an episode has been reported
RecordEpisodeStatisticsReportKeep(w, r) ==
    IF r.ret.terminated \/ r.ret.truncated
    THEN [w |-> w, env |-> r.env, inner |-> r.ret,
          ret |-> [r.ret EXCEPT !.info = RecordEpisodeStatisticsInsert(w, @)]]
    ELSE [w |-> w, env |-> r.env, inner |-> r.ret, ret |-> r.ret]

\* if s.terminated || s.truncated { ... }
RecordEpisodeStatisticsReport(w, r) ==
    IF r.ret.terminated \/ r.ret.truncated
    THEN [w |-> [w EXCEPT !.ep_return = 0, !.ep_length = 0],
          env |-> r.env, inner |-> r.ret,
          ret |-> [r.ret EXCEPT !.info = RecordEpisodeStatisticsInsert(w, @)]]
    ELSE [w |-> w, env |-> r.env, inner |-> r.ret, ret |-> r.ret]

\* let mut s = self.inner.step(action); self.ep_return += s.reward as f64;
\* self.ep_length += 1; ...
RecordEpisodeStatisticsStep(w, r) ==
    RecordEpisodeStatisticsReport(
        [w EXCEPT !.ep_return = @ + r.ret.reward, !.ep_length = @ + 1], r)

WrapperReset(w, e, seed) ==
    IF w.kind = "TimeLimit" THEN TimeLimitReset(w, Reset(e, seed))
    ELSE RecordEpisodeStatisticsReset(w, Reset(e, seed))

WrapperStep(w, e, action) ==
    IF w.kind = "TimeLimit" THEN TimeLimitStep(w, Step(e, action))
    ELSE RecordEpisodeStatisticsStep(w, Step(e, action))

\* the wrappers a caller builds: time limits below, at and above the budget
\* of the inner environment
Wrappers ==
    {TimeLimitNew(m) : m \in {0, 1, WrapSteps}} \cup {RecordEpisodeStatisticsNew}

\* states of an environment in use that are one step from a terminal one
NearEnd(kind) ==
    CASE kind = "CartPole" ->
            {[x |-> x, x_dot |-> 500, theta |-> theta, theta_dot |-> 500] :
                x \in {0, 2395}, theta \in {0, 206}}
      [] kind \in {"MountainCar", "MountainCarContinuous"} ->
            {[position |-> 4950, velocity |-> 700]}
      [] kind = "LunarLander" ->
            {[x |-> 0, y |-> 10, vx |-> 0, vy |-> -700, angle |-> angle, vang |-> 0,
              left_contact |-> FALSE, right_contact |-> FALSE] : angle \in {0, 3100}}
      [] OTHER -> {}

\* the inner environment is fresh, with its own step budget or a short one,
\* or is one step from the end of an episode
InitWrap ==
    /\ \E kind \in Kinds :
          \/ \E m \in {Default(kind).max_episode_steps, EpisodeLimit} :
                env = [Default(kind) EXCEPT !.max_episode_steps = m]
          \/ \E s \in NearEnd(kind) :
                env = [Default(kind) EXCEPT !.s = s, !.steps = 100]
    /\ out = [op |-> "new", arg |-> DefaultSeed(env.kind)]
    /\ hist = [seed |-> None, acts |-> <<>>, used |-> FALSE]
    /\ NoBatch
    /\ obj \in Wrappers
    /\ call = [op |-> "new", resets |-> 0]
    /\ log = <<>>

WrapResetTo(r, seed) ==
    /\ obj' = r.w
    /\ env' = r.env
    /\ out' = [op |-> "reset", arg |-> seed, ret |-> r.inner]
    /\ call' = [op |-> "reset", arg |-> seed, ret |-> r.ret,
                resets |-> call.resets + 1]
    /\ hist' = [seed |-> seed, acts |-> <<>>, used |-> TRUE]
    /\ log' = <<>>
    /\ UNCHANGED <<envs, vout, vhist, panicked>>

WrapStepTo(r, action) ==
    /\ obj' = r.w
    /\ env' = r.env
    /\ out' = [op |-> "step", arg |-> action, ret |-> r.inner]
    /\ call' = [op |-> "step", arg |-> action, ret |-> r.ret,
                resets |-> call.resets]
    /\ hist' = [hist EXCEPT !.acts = Append(@, action)]
    /\ log' = Append(log, r.inner)
    /\ UNCHANGED <<envs, vout, vhist, panicked>>

WrapReset(seed) ==
    /\ call.resets < MaxResets
    /\ WrapResetTo(WrapperReset(obj, env, seed), seed)

WrapStep(action) ==
    /\ Len(hist.acts) < WrapSteps
    /\ WrapStepTo(WrapperStep(obj, env, action), action)

NextWrap ==
    \/ \E seed \in {None, Some(U64(1))} : WrapReset(seed)
    \/ \E action \in Actions(env.kind) : WrapStep(action)

SpecWrap == InitWrap /\ [][NextWrap]_vars

----------------------------------------------------------------------------
(* registry: the process-wide Registry behind an RwLock, used by threads.  *)
(* obj is the RegistryInner with the state of its lock (writer is the      *)
(* thread that holds the write guard, 0 if none; readers the threads that  *)
(* hold a read guard), call[t] the call thread t is in and the statement   *)
(* it has reached, and log the register calls that returned Ok.            *)

Threads == {1, 2}

Ids == {"A-v0", "B-v0"}

\* the EnvSpec and the factory of a register call are told apart by v
SpecValues == {1, 2}

RegistryNew ==
    [kind |-> "Registry", specs |-> [id \in Ids |-> None],
     factories |-> [id \in Ids |-> None], writer |-> 0, readers |-> {}]

InitReg ==
    /\ NoEnv("CartPole")
    /\ NoBatch
    /\ obj = RegistryNew
    /\ call = [t \in Threads |->
                [pc |-> "idle", op |-> "none", id |-> "", v |-> 0,
                 ret |-> "none", n |-> 0]]
    /\ log = <<>>

\* thread t calls register(spec, factory), get_spec(id) or make(id, kwargs)
Call(t, op, id, v) ==
    /\ call[t].pc = "idle"
    /\ call[t].n < RegCalls
    /\ call' = [call EXCEPT ![t] = [pc |-> "lock", op |-> op, id |-> id, v |-> v,
                                    ret |-> "none", n |-> call[t].n + 1]]
    /\ UNCHANGED <<env, out, hist, envs, vout, vhist, panicked, obj, log>>

\* self.inner.write(): granted when no guard is held
Write(t) ==
    /\ call[t].pc = "lock" /\ call[t].op = "register"
    /\ obj.writer = 0 /\ obj.readers = {}
    /\ obj' = [obj EXCEPT !.writer = t]
    /\ call' = [call EXCEPT ![t].pc = "contains_key"]
    /\ UNCHANGED <<env, out, hist, envs, vout, vhist, panicked, log>>

\* if g.specs.contains_key(&spec.id) { return Err(..) }
ContainsKey(t) ==
    /\ call[t].pc = "contains_key"
    /\ call' = IF IsSome(obj.specs[call[t].id])
               THEN [call EXCEPT ![t].pc = "drop", ![t].ret = "Err"]
               ELSE [call EXCEPT ![t].pc = "insert_factory"]
    /\ UNCHANGED <<env, out, hist, envs, vout, vhist, panicked, obj, log>>

\* g.factories.insert(spec.id.clone(), factory)
InsertFactory(t) ==
    /\ call[t].pc = "insert_factory"
    /\ obj' = [obj EXCEPT !.factories[call[t].id] = Some(call[t].v)]
    /\ call' = [call EXCEPT ![t].pc = "insert_spec"]
    /\ UNCHANGED <<env, out, hist, envs, vout, vhist, panicked, log>>

\* g.specs.insert(spec.id.clone(), spec); Ok(())
InsertSpec(t) ==
    /\ call[t].pc = "insert_spec"
    /\ obj' = [obj EXCEPT !.specs[call[t].id] = Some(call[t].v)]
    /\ call' = [call EXCEPT ![t].pc = "drop", ![t].ret = "Ok"]
    /\ UNCHANGED <<env, out, hist, envs, vout, vhist, panicked, log>>

\* a faulty variant of Read: a read guard is granted while a thread writes
ReadWhileWritten(t) ==
    /\ call[t].pc = "lock" /\ call[t].op \in {"get_spec", "make"}
    /\ obj' = [obj EXCEPT !.readers = @ \cup {t}]
    /\ call' = [call EXCEPT ![t].pc = call[t].op]
    /\ UNCHANGED <<env, out, hist, envs, vout, vhist, panicked, log>>

\* self.inner.read(): granted when no write guard is held
Read(t) ==
    /\ call[t].pc = "lock" /\ call[t].op \in {"get_spec", "make"}
    /\ obj.writer = 0
    /\ obj' = [obj EXCEPT !.readers = @ \cup {t}]
    /\ call' = [call EXCEPT ![t].pc = call[t].op]
    /\ UNCHANGED <<env, out, hist, envs, vout, vhist, panicked, log>>

\* g.specs.get(id).cloned()
GetSpec(t) ==
    /\ call[t].pc = "get_spec"
    /\ call' = [call EXCEPT ![t].pc = "drop", ![t].ret = obj.specs[call[t].id]]
    /\ UNCHANGED <<env, out, hist, envs, vout, vhist, panicked, obj, log>>

\* match guard.factories.get(id): Ok of the environment the factory builds,
\* or Err
Make(t) ==
    /\ call[t].pc = "make"
    /\ call' = [call EXCEPT ![t].pc = "drop",
                            ![t].ret = IF IsSome(obj.factories[call[t].id])
                                       THEN <<"Ok", Unwrap(obj.factories[call[t].id])>>
                                       ELSE <<"Err">>]
    /\ UNCHANGED <<env, out, hist, envs, vout, vhist, panicked, obj, log>>

\* the guard is dropped and the call returns
Drop(t) ==
    /\ call[t].pc = "drop"
    /\ obj' = [obj EXCEPT !.writer = IF @ = t THEN 0 ELSE @, !.readers = @ \ {t}]
    /\ call' = [call EXCEPT ![t].pc = "idle"]
    /\ log' = IF call[t].op = "register" /\ call[t].ret = "Ok"
              THEN Append(log, [id |-> call[t].id, v |-> call[t].v]) ELSE log
    /\ UNCHANGED <<env, out, hist, envs, vout, vhist, panicked>>

NextReg ==
    \/ \E t \in Threads, id \in Ids :
          \E op \in {"register", "get_spec", "make"}, v \in SpecValues :
             (op = "register" \/ v = 1) /\ Call(t, op, id, v)
    \/ \E t \in Threads : Write(t)
    \/ \E t \in Threads : ContainsKey(t)
    \/ \E t \in Threads : InsertFactory(t)
    \/ \E t \in Threads : InsertSpec(t)
    \/ \E t \in Threads : Read(t)
    \/ \E t \in Threads : GetSpec(t)
    \/ \E t \in Threads : Make(t)
    \/ \E t \in Threads : Drop(t)

SpecReg == InitReg /\ [][NextReg]_vars

----------------------------------------------------------------------------
(* A batch whose members end their episodes.  log is every reset_all and   *)
(* step_all call on the batch since it was built.                          *)

\* the factory builds every member with the same seed and step budget, or
\* the batch is in use, with members one step from a terminal state
InitBatch ==
    /\ \E kind \in Kinds : \E n \in 1..MaxN :
          /\ \/ \E seed \in {DefaultSeed(kind), U64(1)} :
                   \E m \in {Default(kind).max_episode_steps, EpisodeLimit} :
                      /\ envs = [i \in 1..n |->
                                    [New(kind, seed) EXCEPT !.max_episode_steps = m]]
                      /\ log = <<>>
             \/ \E s \in NearEnd(kind) :
                   /\ envs = [i \in 1..n |->
                                 IF i = 1
                                 THEN [Default(kind) EXCEPT !.s = s, !.steps = 100]
                                 ELSE [Default(kind) EXCEPT !.steps = 100]]
                   /\ log = <<[op |-> "in_use", calls |-> 100]>>
          /\ vout = [op |-> "new", arg |-> n, kind |-> kind]
          /\ NoEnv(kind)
    /\ vhist = [base |-> None, calls |-> <<>>]
    /\ panicked = FALSE
    /\ obj = [kind |-> "none"]
    /\ call = [op |-> "none"]

\* batches of equal actions, and one batch whose first action differs
BatchesOf(kind, n) ==
    {[i \in 1..n |-> a] : a \in {SetMin(Actions(kind)), SetMax(Actions(kind))}}
    \cup {[i \in 1..n |-> IF i = 1 THEN SetMin(Actions(kind))
                                   ELSE SetMax(Actions(kind))]}

BatchResetAll(base_seed) ==
    /\ Len(log) < BatchCalls
    /\ envs' = reset_all(envs, base_seed, FALSE).envs
    /\ vout' = [op |-> "reset_all", arg |-> base_seed,
                ret |-> reset_all(envs, base_seed, FALSE).ret]
    /\ vhist' = [base |-> base_seed, calls |-> <<>>]
    /\ log' = Append(log, [op |-> "reset_all", arg |-> base_seed])
    /\ UNCHANGED <<env, out, hist, panicked, obj, call>>

BatchStepAll(actions) ==
    /\ Len(log) < BatchCalls
    /\ envs' = step_all(envs, actions).envs
    /\ vout' = [op |-> "step_all", arg |-> actions, ret |-> step_all(envs, actions).ret]
    /\ vhist' = [vhist EXCEPT !.calls = Append(@, actions)]
    /\ log' = Append(log, [op |-> "step_all", arg |-> actions])
    /\ UNCHANGED <<env, out, hist, panicked, obj, call>>

NextBatch ==
    \/ \E base_seed \in {None, Some(U64(0))} : BatchResetAll(base_seed)
    \/ \E actions \in BatchesOf(env.kind, Len(envs)) : BatchStepAll(actions)

SpecBatch == InitBatch /\ [][NextBatch]_vars

----------------------------------------------------------------------------
(* The standalone trajectory: an instance built with any constructor seed, *)
(* reset with a seed and stepped through a sequence of actions.            *)

RECURSIVE Run(_, _)
Run(e, acts) ==
    IF acts = <<>> THEN e ELSE Run(Step(e, Head(acts)).env, Tail(acts))

Front(seq) == SubSeq(seq, 1, Len(seq) - 1)

\* what the last of the calls reset(Some(seed)), step(acts[1]), ... returns
\* on the instance e
LastReturn(e, seed, acts) ==
    IF acts = <<>>
    THEN Reset(e, Some(seed)).ret
    ELSE Step(Run(Reset(e, Some(seed)).env, Front(acts)), acts[Len(acts)]).ret

\* the state reset samples for e from the stream rng
SampleFrom(e, rng) ==
    CASE e.kind = "CartPole"              -> CartPoleSample(e, rng)
      [] e.kind = "Pendulum"              -> PendulumSample(e, rng)
      [] e.kind = "MountainCar"           -> MountainCarSample(e, rng)
      [] e.kind = "MountainCarContinuous" -> MountainCarSample(e, rng)
      [] e.kind = "Acrobot"               -> AcrobotSample(e, rng)
      [] e.kind = "LunarLander"           -> LunarLanderSample(e, rng)

----------------------------------------------------------------------------
(* Claims *)

\* C1: a batch of one member, reset with reset_all(Some(s)) and stepped with
\* one-action batches, returns at every call what a standalone instance of
\* the same type returns after reset(Some(s)) and the same actions.
C1_BatchOfOneIsStandalone ==
    (Len(envs) = 1 /\ IsSome(vhist.base) /\ vout.op \in {"reset_all", "step_all"}
        /\ \A t \in 1..Len(vhist.calls) : Len(vhist.calls[t]) = 1)
    => /\ ~panicked
       /\ Len(vout.ret) = 1
       /\ vout.ret[1] = LastReturn(Default(env.kind), Unwrap(vhist.base),
                                   [t \in 1..Len(vhist.calls) |-> vhist.calls[t][1]])

C1_Witness ==
    /\ Len(envs) = 1 /\ IsSome(vhist.base) /\ vout.op = "step_all"
    /\ Len(vhist.calls) = 3
    /\ \A t \in 1..3 : Len(vhist.calls[t]) = 1
    /\ vhist.calls[1] # vhist.calls[2]

\* C2: after reset(Some(s)) and a sequence of actions an instance returns
\* what an instance with another constructor seed and no earlier calls
\* returns for the same seed and actions, and is in the same physical state.
C2_SeededResetForgetsThePast ==
    (IsSome(hist.seed) /\ out.op \in {"reset", "step"})
    => LET fresh == [New(env.kind, U64(99)) EXCEPT
                        !.max_episode_steps = env.max_episode_steps]
       IN  /\ out.ret = LastReturn(fresh, Unwrap(hist.seed), hist.acts)
           /\ env.s = Run(Reset(fresh, hist.seed).env, hist.acts).s

C2_Witness ==
    /\ IsSome(hist.seed) /\ hist.used /\ out.op = "step"
    /\ Len(hist.acts) = 3

\* C3: the step counter is 0 after construction and after reset, counts the
\* step calls since, and the k-th step returns truncated exactly when
\* k >= max_episode_steps.
C3_StepCounterAndTruncation ==
    /\ out.op \in {"new", "set_max_episode_steps", "reset"} => env.steps = 0
    /\ out.op = "step" =>
          /\ env.steps = Len(hist.acts)
          /\ out.ret.truncated <=> (Len(hist.acts) >= env.max_episode_steps)

C3_Witness ==
    /\ out.op = "step" /\ out.ret.truncated
    /\ Len(hist.acts) = env.max_episode_steps
    /\ IsSome(hist.seed)

\* C4: step_all with a batch whose length is not N panics: no member
\* changes and nothing is returned.
C4_LengthMismatchPanics ==
    [][(vout'.op = "step_all" /\ vhist'.calls # vhist.calls
          /\ Len(vout'.arg) # Len(envs))
       => (panicked' /\ envs' = envs /\ vout'.ret = <<>>)]_vars

C4_Witness ==
    /\ vout.op = "step_all" /\ panicked
    /\ Len(envs) = 2 /\ Len(vout.arg) = 1
    /\ vhist.calls # <<>>

\* C5: step_all with N actions steps member i once with actions[i] and
\* returns the N results in index order; member i's new state is the step
\* of its own old state.
C5_StepAllIsPositional ==
    [][(vout'.op = "step_all" /\ vhist'.calls # vhist.calls
          /\ Len(vout'.arg) = Len(envs))
       => /\ ~panicked'
          /\ Len(envs') = Len(envs)
          /\ Len(vout'.ret) = Len(envs)
          /\ \A i \in 1..Len(envs) :
                /\ envs'[i] = Step(envs[i], vout'.arg[i]).env
                /\ envs'[i].steps = envs[i].steps + 1
                /\ vout'.ret[i] = Step(envs[i], vout'.arg[i]).ret]_vars

C5_Witness ==
    /\ vout.op = "step_all" /\ ~panicked
    /\ Len(envs) = 2 /\ Len(vout.ret) = 2
    /\ vout.arg[1] # vout.arg[2]
    /\ vout.ret[1] # vout.ret[2]

\* C6: reset_all(Some(b)) resets member i with the seed b + i, reset_all(None)
\* resets every member without a seed, and both return N pairs.
C6_ResetAllSeedsEveryMember ==
    [][(vout'.op = "reset_all" /\ ~panicked)
       => /\ ~panicked'
          /\ Len(vout'.ret) = Len(envs)
          /\ \A i \in 1..Len(envs) :
                LET seed == IF IsSome(vout'.arg)
                            THEN Some(AddU64(Unwrap(vout'.arg), i - 1).value)
                            ELSE None
                IN  /\ envs'[i] = Reset(envs[i], seed).env
                    /\ vout'.ret[i] = Reset(envs[i], seed).ret]_vars

\* C7: step leaves the stream alone, reset(None) samples the new state from
\* the instance's stream at its position and advances it, and reset(Some(s))
\* samples it from the beginning of the stream of s.
C7_StreamUse ==
    [][/\ out'.op = "step" => env'.rng = env.rng
       /\ (out'.op = "reset" /\ out'.arg = None) =>
             /\ env' = SampleFrom(env, env.rng)
             /\ env'.rng = [seed |-> env.rng.seed, pos |-> env.rng.pos + Draws(env.kind)]
       /\ (out'.op = "reset" /\ IsSome(out'.arg)) =>
             /\ env' = SampleFrom(env, [seed |-> Unwrap(out'.arg), pos |-> 0])
             /\ env'.rng = [seed |-> Unwrap(out'.arg), pos |-> Draws(env.kind)]]_vars

C7_Witness ==
    /\ out.op = "reset" /\ out.arg = None
    /\ env.rng.pos = 2 * Draws(env.kind)
    /\ env.rng.seed \in Seeds

\* C8: a step that returns terminated does not return truncated.
C8_TerminatedExcludesTruncated ==
    out.op = "step" => ~(out.ret.terminated /\ out.ret.truncated)

\* C9: a pendulum step never returns terminated, and returns truncated only
\* when the steps since reset have reached max_episode_steps.
C9_PendulumOnlyTruncates ==
    (env.kind = "Pendulum" /\ out.op = "step")
    => /\ ~out.ret.terminated
       /\ out.ret.truncated => Len(hist.acts) >= env.max_episode_steps

C9_Witness ==
    /\ env.kind = "Pendulum" /\ out.op = "step"
    /\ out.ret.truncated
    /\ Abs(env.s.theta) > HalfPi

\* C10: a cart-pole step returns terminated exactly when the state it leaves
\* has |x| > 2.4 or |theta| > 12 degrees, and a step that is not terminal
\* returns the reward 1.0.
C10_CartPoleTermination ==
    (env.kind = "CartPole" /\ out.op = "step")
    => /\ out.ret.terminated <=>
             (Abs(env.s.x) > 2400 \/ Abs(env.s.theta) > Quot(12 * Pi, 180))
       /\ ~out.ret.terminated => out.ret.reward = Scale

C10_Witness ==
    /\ env.kind = "CartPole" /\ out.op = "step"
    /\ out.ret.terminated
    /\ env.s.x > 2400
    /\ Abs(env.s.theta) <= Quot(12 * Pi, 180)

\* C11: a discrete mountain-car step returns terminated exactly when the
\* position it leaves is >= 0.5; its reward is never positive: -1.0 on every
\* step that does not reach the goal, 0 on the step that does.
C11_MountainCarGoal ==
    (env.kind = "MountainCar" /\ out.op = "step")
    => /\ out.ret.terminated <=> (env.s.position >= 5000)
       /\ out.ret.reward <= 0
       /\ out.ret.reward = (IF out.ret.terminated THEN 0 ELSE -Scale)

C11_Witness ==
    /\ env.kind = "MountainCar" /\ out.op = "step"
    /\ out.ret.terminated /\ out.ret.reward = 0
    /\ env.s.position < 6000
    /\ Len(hist.acts) = 1

\* the angles of the state of e
Angles(e) ==
    CASE e.kind = "Pendulum"    -> {e.s.theta}
      [] e.kind = "Acrobot"     -> {e.s.th1, e.s.th2}
      [] e.kind = "LunarLander" -> {e.s.angle}
      [] OTHER                  -> {}

\* C12 as stated: after every step of pendulum, acrobot and lunar lander each
\* angle of the state lies in (-pi, pi].
C12_AnglesAbovePi ==
    out.op = "step" => \A a \in Angles(env) : -Pi < a /\ a <= Pi

\* C12 as amended: after every step of pendulum, acrobot and lunar lander
\* each angle of the state lies in [-pi, pi): +pi is never produced, and an
\* angle that integrates to exactly pi is wrapped to -pi.
C12_AnglesFromMinusPi ==
    out.op = "step" => \A a \in Angles(env) : -Pi <= a /\ a < Pi

C12_Witness ==
    /\ out.op = "step" /\ env.kind = "Pendulum"
    /\ env.s.theta = -Pi
    /\ out.arg = 1

\* C13: after every step the state is inside its box: in both mountain-car
\* variants the velocity is in [-0.07, 0.07], the position in [-1.2, 0.6] and
\* the velocity is >= 0 at the left wall; in pendulum |theta_dot| <= 8; in
\* acrobot |dth1| <= 4 pi and |dth2| <= 9 pi.
C13_StateInBox ==
    out.op = "step" =>
        /\ env.kind \in {"MountainCar", "MountainCarContinuous"} =>
              /\ -700 <= env.s.velocity /\ env.s.velocity <= 700
              /\ -12000 <= env.s.position /\ env.s.position <= 6000
              /\ env.s.position = -12000 => env.s.velocity >= 0
        /\ env.kind = "Pendulum" => Abs(env.s.theta_dot) <= 8 * Scale
        /\ env.kind = "Acrobot" =>
              /\ Abs(env.s.dth1) <= Mul(4 * Scale, Pi)
              /\ Abs(env.s.dth2) <= Mul(9 * Scale, Pi)

\* the car has run into the left wall and been stopped there
C13_Witness ==
    /\ out.op = "step" /\ env.kind = "MountainCarContinuous"
    /\ env.s.position = -12000 /\ env.s.velocity = 0
    /\ out.arg < 0

\* the lander as step has it when it tests y <= 0: after gravity, the engines,
\* the damping and the integration, before the ground contact is resolved
Touchdown(s, action) ==
    Integrate(Damping(apply_action(Gravity(s), IF action < 3 THEN action ELSE 3)))

\* C14: a lunar-lander step that reaches the ground (y <= 0) with a hard
\* impact (|vy| >= 0.6 at touchdown) is reported as a crash: terminated is
\* true and the reward includes the -100 of a crash.
C14_HardImpactIsCrash ==
    [][(/\ env.kind = "LunarLander"
        /\ out'.op = "step" /\ hist'.acts = Append(hist.acts, out'.arg)
        /\ Touchdown(env.s, out'.arg).y <= 0
        /\ Abs(Touchdown(env.s, out'.arg).vy) >= 600)
       => /\ out'.ret.terminated
          /\ crashed(env'.s)
          /\ out'.ret.reward <= -100 * Scale]_vars

\* C15 as stated: an action outside the domain is clamped: in the five discrete
\* environments a step with an index above the range does exactly what a step
\* with the highest valid index does, and in the continuous mountain car
\* step(a) does what step(clamp(a, -1, 1)) does, the reward included.
C15_OutOfRangeActionsAreClamped ==
    [][(/\ out'.op = "step" /\ hist'.acts = Append(hist.acts, out'.arg)
        /\ out'.arg \notin Actions(env.kind))
       => LET nearest == IF env.kind = "MountainCarContinuous"
                         THEN Clamp(out'.arg, -Scale, Scale)
                         ELSE SetMax(Actions(env.kind))
          IN  /\ env' = Step(env, nearest).env
              /\ out'.ret = Step(env, nearest).ret]_vars

\* C15 as amended: an action outside the domain is never rejected. In
\* mountain car, pendulum, acrobot and lunar lander a step with an index above
\* the range does exactly what a step with the highest valid index does; in
\* cart-pole every index other than 1, so every index above the range, does
\* what index 0 (push left) does; in the continuous mountain car step(a) does
\* what step(clamp(a, -1, 1)) does, the reward included.
C15_OutOfRangeActionsAreMapped ==
    [][(/\ out'.op = "step" /\ hist'.acts = Append(hist.acts, out'.arg)
        /\ out'.arg \notin Actions(env.kind))
       => LET nearest == CASE env.kind = "MountainCarContinuous"
                                -> Clamp(out'.arg, -Scale, Scale)
                           [] env.kind = "CartPole" -> 0
                           [] OTHER -> SetMax(Actions(env.kind))
          IN  /\ env' = Step(env, nearest).env
              /\ out'.ret = Step(env, nearest).ret]_vars

\* cart-pole has been stepped with the index 2
C15_Witness ==
    /\ out.op = "step" /\ env.kind = "CartPole"
    /\ out.arg = 2
    /\ env.steps = 101

\* C16: after any sequence of Info::insert calls every key appears exactly
\* once, iteration visits the keys in the order of their first insertion,
\* get(k) returns the value of the most recent insert of k, and len is the
\* number of distinct keys inserted.
C16_InfoIsAnOrderedMap ==
    obj.kind = "Info" =>
      LET inserted == {log[n][1] : n \in 1..Len(log)}
          first(k) == SetMin({n \in 1..Len(log) : log[n][1] = k})
          last(k) == SetMax({n \in 1..Len(log) : log[n][1] = k})
          it == InfoIter(obj)
      IN  /\ \A i, j \in 1..Len(it) : it[i][1] = it[j][1] => i = j
          /\ {it[i][1] : i \in 1..Len(it)} = inserted
          /\ \A i, j \in 1..Len(it) : i < j => first(it[i][1]) < first(it[j][1])
          /\ \A i \in 1..Len(it) : it[i][2] = log[last(it[i][1])][2]
          /\ \A k \in inserted : InfoGet(obj, k) = Some(log[last(k)][2])
          /\ InfoLen(obj) = Cardinality(inserted)
          /\ call.op = "get" /\ call.key \in inserted
                => call.ret = Some(log[last(call.key)][2])
          /\ call.op = "len" => call.ret = Cardinality(inserted)

\* a key inserted, another inserted after it, the first overwritten, and read
C16_Witness ==
    /\ obj.kind = "Info"
    /\ log = <<<<"b", 1>>, <<"a", 1>>, <<"b", 2>>>>
    /\ call.op = "get" /\ call.key = "b" /\ call.ret = Some(2)

\* C17: for every validly constructed space and every state of the stream,
\* sample returns an element for which contains is true; Discrete(1) and every
\* MultiDiscrete dimension with nvec[i] = 1 sample 0, and a Box dimension with
\* low[i] = high[i] samples that value.
C17_SampleIsContained ==
    call.op = "sample" =>
        /\ SpaceContains(obj, call.ret)
        /\ obj.kind = "Discrete" /\ obj.n = 1 => call.ret = 0
        /\ obj.kind = "MultiDiscrete" =>
              \A i \in 1..Len(obj.nvec) : obj.nvec[i] = 1 => call.ret[i] = 0
        /\ obj.kind = "Box" =>
              \A i \in 1..Len(obj.low) :
                  obj.low[i] = obj.high[i] => call.ret[i] = obj.low[i]

\* a box with one degenerate dimension and one proper dimension, sampled
\* strictly inside the proper one
C17_Witness ==
    /\ call.op = "sample" /\ obj.kind = "Box"
    /\ obj.low = <<F(0), F(-Scale)>> /\ obj.high = <<F(0), F(2500)>>
    /\ call.ret[1] = F(0)
    /\ call.ret[2][1] > 0 /\ call.ret[2][1] < 2500
    /\ log.pos = 4

\* C18: contains decides membership exactly: Discrete(n) has v iff v < n;
\* MultiBinary(n) has e iff e has length n and every entry is 0 or 1;
\* MultiDiscrete(nvec) has e iff e has the length of nvec and e[i] < nvec[i]
\* for every i; Box has e iff low[i] <= e[i] <= high[i] in every dimension.
C18_ContainsIsMembership ==
    call.op = "contains" =>
        (call.ret <=>
            CASE obj.kind = "Discrete" -> call.arg \in 0..(obj.n - 1)
              [] obj.kind = "MultiBinary" -> call.arg \in [1..obj.n -> {0, 1}]
              [] obj.kind = "MultiDiscrete" ->
                    /\ DOMAIN call.arg = DOMAIN obj.nvec
                    /\ \A i \in DOMAIN obj.nvec : call.arg[i] \in 0..(obj.nvec[i] - 1)
              [] obj.kind = "Box" ->
                    \A i \in DOMAIN obj.low :
                        /\ call.arg[i] # NaN
                        /\ obj.low[i][1] <= call.arg[i][1]
                        /\ call.arg[i][1] <= obj.high[i][1])

\* an element of bits that is one entry too long is rejected
C18_Witness ==
    /\ call.op = "contains" /\ obj.kind = "MultiBinary" /\ obj.n = 2
    /\ call.arg = <<0, 1, 0>>
    /\ ~call.ret

\* C19 as stated: construction aborts and yields no space exactly for
\* Discrete::new(0), MultiBinary::new(0), MultiDiscrete::new of an empty
\* vector or with some nvec[i] = 0, and BoxSpace::new with low[i] > high[i]
\* for some i; every other choice constructs a space whose accessors return
\* the given parameters.
C19_AbortsOnLowAboveHigh ==
    call.op = "new" =>
        LET a == call.args
            invalid ==
              CASE a.kind \in {"Discrete", "MultiBinary"} -> a.n = 0
                [] a.kind = "MultiDiscrete" ->
                      a.nvec = <<>> \/ \E i \in 1..Len(a.nvec) : a.nvec[i] = 0
                [] a.kind = "Box" ->
                      \E i \in 1..Len(a.low) :
                          /\ a.low[i] # NaN /\ a.high[i] # NaN
                          /\ a.low[i][1] > a.high[i][1]
        IN  /\ call.panicked <=> invalid
            /\ call.panicked => obj = Aborted
            /\ ~call.panicked => obj = a

\* C19 as amended: as stated, but BoxSpace::new aborts for every dimension i
\* in which low[i] <= high[i] does not hold: low[i] > high[i], or a bound
\* that is not comparable (NaN).
C19_AbortsUnlessLowBelowHigh ==
    call.op = "new" =>
        LET a == call.args
            invalid ==
              CASE a.kind \in {"Discrete", "MultiBinary"} -> a.n = 0
                [] a.kind = "MultiDiscrete" ->
                      a.nvec = <<>> \/ \E i \in 1..Len(a.nvec) : a.nvec[i] = 0
                [] a.kind = "Box" ->
                      \E i \in 1..Len(a.low) :
                          \/ a.low[i] = NaN \/ a.high[i] = NaN
                          \/ a.low[i][1] > a.high[i][1]
        IN  /\ call.panicked <=> invalid
            /\ call.panicked => obj = Aborted
            /\ ~call.panicked => obj = a

\* BoxSpace::new has aborted on a NaN bound in a dimension whose other bound
\* is a number, the other dimension being in order
C19_Witness ==
    /\ call.op = "new" /\ call.panicked /\ obj = Aborted
    /\ call.args.kind = "Box"
    /\ call.args.low = <<F(0), NaN>> /\ call.args.high = <<F(2500), F(0)>>

\* C20: the sub-seeds are a function of the root seed and the number of
\* calls only: whatever calls have drawn them, the sub-seeds drawn so far from
\* SeedSequence::new(seed) are split_n(seed, n) for their number n, so two
\* sequences of the same seed agree at every index; and split_n(seed, m) is
\* the prefix of length m of split_n(seed, n) for every m <= n.
C20_SubseedsDependOnSeedAndIndex ==
    obj.kind = "SeedSequence" =>
        /\ \A n \in 0..Len(log.subseeds) :
              split_n(log.seed, n) = SubSeq(log.subseeds, 1, n)
        /\ \A n \in 0..MaxSubseeds : \A m \in 0..n :
              split_n(log.seed, m) = SubSeq(split_n(log.seed, n), 1, m)
        /\ call.op = "next_subseed" =>
              call.ret = split_n(log.seed, Len(log.subseeds))[Len(log.subseeds)]
        /\ call.op = "split_n" =>
              call.ret = SubSeq(split_n(log.seed, Len(log.subseeds)),
                                Len(log.subseeds) - call.n + 1, Len(log.subseeds))

\* the seed 12345: one sub-seed drawn by next_subseed, then two by split_n,
\* with the values the mixer gives at full width
C20_Witness ==
    /\ obj.kind = "SeedSequence" /\ log.seed = U64(12345)
    /\ call.op = "split_n" /\ call.n = 2
    /\ log.subseeds = << <<45933, 18301, 1283, 14929>>,
                         <<13861, 4396, 47441, 5844>>,
                         <<18581, 40615, 60400, 64853>> >>

\* C21: distinct root seeds give distinct sub-seed sequences: for seeds
\* a # b and every n >= 1, split_n(a, n) # split_n(b, n).  Here a is the seed
\* of the sequence in use, whose first n sub-seeds have been drawn.
C21_DistinctSeedsDistinctSubseeds ==
    obj.kind = "SeedSequence" =>
        \A b \in RootSeeds \ {log.seed} : \A n \in 1..Len(log.subseeds) :
            split_n(b, n) # SubSeq(log.subseeds, 1, n)

\* three sub-seeds drawn from the seed 2^48, whose low 48 bits are those of
\* the seed 0
C21_Witness ==
    /\ obj.kind = "SeedSequence" /\ log.seed = <<1, 0, 0, 0>>
    /\ Len(log.subseeds) = 3
    /\ call.op = "next_subseed"
    /\ log.subseeds[1] # split_n(U64(0), 1)[1]

\* C22: in every state reached through reset and step calls, render returns
\* a pixel frame whose data has width * height * 4 bytes at the default
\* resolution of the environment, without failing, and leaves the state of
\* the environment as it was.
C22_RenderReturnsAFrame ==
    [][out'.op = "render" =>
          /\ ~out'.ret.panicked
          /\ out'.ret.data_len = out'.ret.width * out'.ret.height * 4
          /\ <<out'.ret.width, out'.ret.height>>
                 = (IF env.kind = "Acrobot" THEN <<400, 400>>
                    ELSE IF env.kind = "LunarLander" THEN <<400, 300>>
                    ELSE <<320, 240>>)
          /\ env' = env]_vars

\* C23: the counter of TimeLimit is 0 after a reset and grows by one with
\* every step; a step numbered k >= max_steps since the last reset that the
\* inner environment marks neither terminated nor truncated is returned
\* truncated; the wrapper never changes terminated, never clears a truncated
\* flag of the inner environment and never sets truncated on a step the
\* inner environment marked terminated.
C23_TimeLimitTruncates ==
    obj.kind = "TimeLimit" =>
        /\ call.op = "reset" => obj.steps = 0
        /\ obj.steps = Len(log)
        /\ call.op = "step" =>
              /\ call.ret.terminated = out.ret.terminated
              /\ out.ret.truncated => call.ret.truncated
              /\ out.ret.terminated => call.ret.truncated = out.ret.truncated
              /\ (Len(log) >= obj.max_steps /\ ~out.ret.terminated
                      /\ ~out.ret.truncated) => call.ret.truncated

\* the second step after a reset, beyond a limit of one step
C23_Witness ==
    /\ obj.kind = "TimeLimit" /\ obj.max_steps = 1
    /\ call.op = "step" /\ call.resets = 1 /\ Len(log) = 2
    /\ ~out.ret.terminated /\ ~out.ret.truncated
    /\ call.ret.truncated

\* the first step of the episode that is running after the steps in l
EpisodeStart(l) ==
    1 + SetMax({0} \cup {i \in 1..(Len(l) - 1) : l[i].terminated \/ l[i].truncated})

RECURSIVE SumRewards(_, _)
SumRewards(l, from) ==
    IF from > Len(l) THEN 0 ELSE l[from].reward + SumRewards(l, from + 1)

\* C24: on every step whose inner result is terminated or truncated,
\* RecordEpisodeStatistics returns an info holding episode_length, the number
\* of steps since the later of the last reset and the last reported episode
\* end, and episode_return, the sum of the rewards of those steps; on every
\* other step it adds neither key; the counters restart from zero after each
\* reported end and on reset.
C24_EpisodeStatistics ==
    obj.kind = "RecordEpisodeStatistics" =>
        /\ call.op = "reset" => obj.ep_length = 0 /\ obj.ep_return = 0
        /\ call.op = "step" =>
              IF out.ret.terminated \/ out.ret.truncated
              THEN /\ InfoGet([entries |-> call.ret.info], "episode_length")
                        = Some(<<"I64", Len(log) - EpisodeStart(log) + 1>>)
                   /\ InfoGet([entries |-> call.ret.info], "episode_return")
                        = Some(<<"F64", SumRewards(log, EpisodeStart(log))>>)
                   /\ Len(call.ret.info) = Len(out.ret.info) + 2
                   /\ obj.ep_length = 0 /\ obj.ep_return = 0
              ELSE /\ call.ret.info = out.ret.info
                   /\ InfoGet([entries |-> call.ret.info], "episode_length") = None
                   /\ InfoGet([entries |-> call.ret.info], "episode_return") = None
                   /\ obj.ep_length = Len(log) - EpisodeStart(log) + 1
                   /\ obj.ep_return = SumRewards(log, EpisodeStart(log))

\* an episode of two steps ends after a reset
C24_Witness ==
    /\ obj.kind = "RecordEpisodeStatistics"
    /\ call.op = "step" /\ call.resets = 1 /\ Len(log) = 2
    /\ ~log[1].terminated /\ ~log[1].truncated /\ out.ret.truncated
    /\ call.ret.info = << <<"episode_return", <<"F64", log[1].reward + log[2].reward>> >>,
                          <<"episode_length", <<"I64", 2>> >> >>
    /\ log[1].reward + log[2].reward # 0

\* C25: the registry is write-once per id under every interleaving of
\* concurrent register, get_spec and make calls: at most one register call
\* succeeds for an id, a register call on a registered id returns an error
\* and leaves the spec and the factory as they were, and no reader sees an
\* id that has a spec and no factory or a factory and no spec.
C25_RegistryIsWriteOnce ==
    obj.kind = "Registry" =>
        /\ \A i, j \in 1..Len(log) : log[i].id = log[j].id => i = j
        /\ \A i \in 1..Len(log) :
              /\ obj.specs[log[i].id] = Some(log[i].v)
              /\ obj.factories[log[i].id] = Some(log[i].v)
        /\ \A t \in Threads :
              call[t].pc = "drop" /\ call[t].op = "register" =>
                 (call[t].ret = "Err" <=> \E i \in 1..Len(log) : log[i].id = call[t].id)
        /\ obj.readers # {} =>
              \A id \in Ids : IsSome(obj.specs[id]) <=> IsSome(obj.factories[id])
        /\ \A t \in Threads :
              /\ call[t].pc = "drop" /\ call[t].op = "get_spec" =>
                    call[t].ret = obj.specs[call[t].id]
                    /\ (IsSome(call[t].ret) <=> IsSome(obj.factories[call[t].id]))
              /\ call[t].pc = "drop" /\ call[t].op = "make" =>
                    (call[t].ret # <<"Err">> <=> IsSome(obj.specs[call[t].id]))

\* a second register of an id is refused while another thread reads it
C25_Witness ==
    /\ obj.kind = "Registry"
    /\ Len(log) = 1
    /\ call[1].pc = "drop" /\ call[1].op = "register" /\ call[1].ret = "Err"
    /\ call[1].id = log[1].id /\ call[1].v # log[1].v
    /\ call[2].pc = "lock" /\ call[2].op = "make" /\ call[2].id = log[1].id

\* reset_all calls in l
Resets(l) == {k \in 1..Len(l) : l[k].op = "reset_all"}

\* step_all calls in l since the last reset_all, with those made before l
\* began if l holds no reset_all
StepsSinceReset(l) ==
    IF Resets(l) # {} THEN Len(l) - SetMax(Resets(l))
    ELSE IF l # <<>> /\ l[1].op = "in_use" THEN l[1].calls + Len(l) - 1
    ELSE Len(l)

\* C26: step_all never resets a member: a member whose episode has
\* terminated or been truncated is stepped like every other, and all members
\* have the same count of elapsed steps, the number of step_all calls since
\* the last reset_all.
C26_StepAllNeverResets ==
    /\ \A i \in 1..Len(envs) : envs[i].steps = StepsSinceReset(log)
    /\ vout.op = "step_all" =>
          Len(vout.ret) = Len(envs)

\* a member is stepped again after the step that truncated its episode, and
\* another after the step that terminated its episode
C26_Witness ==
    /\ vout.op = "step_all" /\ Len(envs) = 2
    /\ \/ /\ log[1].op = "step_all"
          /\ envs[1].steps = envs[1].max_episode_steps + 1
          /\ vout.ret[1].truncated /\ vout.ret[2].truncated
       \/ /\ envs[1].steps = 102
          /\ vout.ret[1].terminated /\ ~vout.ret[2].terminated

\* every call in l is an unseeded reset_all or a step_all of equal actions
Unseeded(l) ==
    \A k \in 1..Len(l) :
        \/ l[k].op = "reset_all" /\ l[k].arg = None
        \/ l[k].op = "step_all" /\ \A i, j \in 1..Len(l[k].arg) : l[k].arg[i] = l[k].arg[j]

\* C27: the members of a batch whose factory passes the same seed to every
\* constructor hold equal random streams: reset_all(None) right after
\* construction returns the same observation for every member, and the
\* members stay equal, with equal results, under equal actions and unseeded
\* resets.
C27_EqualSeedsEqualMembers ==
    Unseeded(log) =>
        /\ \A i, j \in 1..Len(envs) : envs[i] = envs[j]
        /\ vout.op \in {"reset_all", "step_all"} =>
              \A i, j \in 1..Len(vout.ret) : vout.ret[i] = vout.ret[j]

\* two members after an unseeded reset, a step and a second unseeded reset
C27_Witness ==
    /\ Len(envs) = 2 /\ Len(log) = 3 /\ Unseeded(log)
    /\ log[1].op = "reset_all" /\ log[2].op = "step_all" /\ vout.op = "reset_all"
    /\ envs[1].rng.pos = 2 * Draws(envs[1].kind)
    /\ vout.ret[1] = vout.ret[2]

\* C28: in every lunar-lander state a step produces, y >= 0, and vy = 0
\* whenever y = 0; landed_success and crashed are never both true; the reward
\* holds at most one of the +100 of a landing and the -100 of a crash, and
\* terminated is true exactly when one of them is applied (the rest of the
\* reward lies between -50 and 0).
C28_LanderOutcomeIsExclusive ==
    env.kind = "LunarLander" /\ out.op = "step" =>
        /\ env.s.y >= 0
        /\ env.s.y = 0 => env.s.vy = 0
        /\ ~(landed_success(env.s) /\ crashed(env.s))
        /\ out.ret.terminated <=> (landed_success(env.s) \/ crashed(env.s))
        /\ landed_success(env.s) => out.ret.reward > 50 * Scale
        /\ crashed(env.s) => out.ret.reward < -50 * Scale
        /\ ~out.ret.terminated =>
              out.ret.reward > -50 * Scale /\ out.ret.reward <= 0

\* the lander has come down on the pad
C28_Witness ==
    /\ env.kind = "LunarLander" /\ out.op = "step"
    /\ env.s.y = 0 /\ env.s.vy = 0 /\ env.s.left_contact
    /\ landed_success(env.s) /\ out.ret.terminated
    /\ out.ret.reward > 99 * Scale

\* C29: reset_all(Some(b)) completes for every base seed b and every batch
\* size, also when b + i exceeds 2^64 - 1: every member is reset and one
\* result per member is returned.
C29_ResetAllCompletes ==
    vout.op = "reset_all" =>
        /\ ~panicked
        /\ Len(vout.ret) = Len(envs)
        /\ \A i \in 1..Len(envs) : envs[i].steps = 0

\* the pixel (px, py) lies in the rectangle <<x, y, w, h>>
InRect(r, px, py) ==
    /\ r[1] <= px /\ px < r[1] + r[3]
    /\ r[2] <= py /\ py < r[2] + r[4]

\* C30: the drawing calls of Canvas clip: for any integer arguments
\* put_pixel and fill_rect never read or write outside the buffer (no call
\* panics), the part of a rectangle that is off the canvas is ignored (the
\* pixels of the canvas inside the rectangle take the colour, every other
\* pixel is left as it was), a rectangle wholly left of or above the canvas
\* draws nothing, and the buffer keeps its length of width * height * 4.
C30_DrawingClips ==
    obj.kind = "Canvas" /\ call.op \in {"put_pixel", "fill_rect"} =>
        /\ ~call.panicked
        /\ Len(obj.pixels) = obj.width * obj.height
        /\ \A px \in 0..(obj.width - 1) : \A py \in 0..(obj.height - 1) :
              obj.pixels[py * obj.width + px + 1]
                 = IF InRect(call.arg, px, py) THEN call.color
                   ELSE log[py * obj.width + px + 1]

====
